---- MODULE Spec2Model ----
(***************************************************************************)
(* VibeForge control service: the job status tracker, the deployCdkStack   *)
(* pipeline with its subprocesses, and the generate / publish handlers     *)
(* that persist the pipeline's result in the application manifest.         *)
(***************************************************************************)
EXTENDS Integers, Sequences, FiniteSets, TLC

VARIABLES
    jobs,        \* StatusTracker.jobs: job id -> JobStatus, or NoJob
    now,         \* the clock read by new Date() in addUpdate
    req,         \* the HTTP request being served (one handler invocation)
    response,    \* the last HTTP response sent
    manifest,    \* /work/<appId>/.vibe/manifest.json, per application
    fsx,         \* per application and sub-project: node_modules, package.json, .package-hash
    dpc,         \* position of the deployCdkStack invocation
    dargs,       \* its appId and environment arguments
    procs,       \* the subprocesses spawned by execCommand and their promises
    ext,         \* the promises of the non-subprocess awaits of deployCdkStack
    needs,       \* needsInfraInstall / needsWebInstall
    stageLog,    \* the stages started by this invocation, in order
    result,      \* the DeploymentResult it returned
    fsAtCheck,   \* history: the sub-project files as needsNpmInstall found them
    prevRun,     \* history: the dependency stage of the previous invocation
    runs,        \* requests accepted so far; also the handlers' clock (new Date())
    emitted,     \* the updates the onStatus callback of the run has received, in order
    gen,         \* position of the generateAppSpec invocation
    timers,      \* the pending setTimeout callbacks of StatusTracker.cleanup, per job id
    call,        \* history: the latest StatusTracker call, when it found no job for its id
    tenant,      \* /data/tenant.json
    callers,     \* the getTenantConfig invocations in flight, each with its position
    connection,  \* /data/connection-<accountId>.json
    sts,         \* history: the latest assumeRole call of the request being served
    served,      \* the handlers that run at the same time, each with its locals
    ui           \* the page of the UI: its React state and its generations

trackerVars == <<jobs, now, timers, call>>
apiVars == <<req, response, manifest, runs>>
deployVars == <<fsx, dpc, dargs, procs, ext, needs, stageLog, result, fsAtCheck, prevRun,
                emitted, gen>>
tenantVars == <<tenant, callers, connection, served, ui>>
vars == <<jobs, now, req, response, manifest, fsx, dpc, dargs, procs, ext,
          needs, stageLog, result, fsAtCheck, prevRun, runs, emitted, gen, timers, call,
          tenant, callers, connection, sts, served, ui>>

----------------------------------------------------------------------------
(* Bounds *)

MaxUpdates == 2      \* updates appended to the logs of all jobs together
MaxClock == 2        \* largest tracker timestamp
MaxRuns == 3         \* requests accepted in one behaviour
MaxContent == 2      \* distinct package.json contents of a sub-project
MaxSignals == 1      \* subprocesses of one invocation that a signal ends
MaxTimers == 1       \* pending cleanup timers of one job id

----------------------------------------------------------------------------
(* Job status tracker *)

JobIds == {"j1", "j2"}
Steps == {"deploy-install"}
JobResults == {"r1", "r2"}
JobErrors == {"e1", "e2"}
NoJob == [none |-> TRUE]
Undefined == "undefined"

NewJob(jobId) ==
    [jobId |-> jobId, status |-> "in_progress", updates |-> <<>>,
     result |-> Undefined, error |-> Undefined]

StatusUpdate(step, message, completed) ==
    [step |-> step, message |-> message, timestamp |-> now, completed |-> completed]

createJob(jobId) ==
    /\ jobs' = [jobs EXCEPT ![jobId] = NewJob(jobId)]
    /\ UNCHANGED now

\* job.updates = [update] instead of job.updates.push(update)
AddUpdateReplaces(jobId, step, message, completed) ==
    /\ IF jobs[jobId] = NoJob
         THEN jobs' = jobs
         ELSE jobs' = [jobs EXCEPT ![jobId].updates =
                          <<StatusUpdate(step, message, completed)>>]
    /\ UNCHANGED now

\* one updates array shared by the jobs
AddUpdateShared(jobId, step, message, completed) ==
    /\ IF jobs[jobId] = NoJob
         THEN jobs' = jobs
         ELSE jobs' = [j \in JobIds |->
                          IF jobs[j] = NoJob THEN NoJob
                          ELSE [jobs[j] EXCEPT !.updates =
                                   Append(@, StatusUpdate(step, message, completed))]]
    /\ UNCHANGED now

addUpdate(jobId, step, message, completed) ==
    /\ IF jobs[jobId] = NoJob
         THEN jobs' = jobs
         ELSE jobs' = [jobs EXCEPT ![jobId].updates =
                          Append(@, StatusUpdate(step, message, completed))]
    /\ UNCHANGED now

completeJob(jobId, res) ==
    /\ IF jobs[jobId] = NoJob
         THEN jobs' = jobs
         ELSE jobs' = [jobs EXCEPT ![jobId].status = "completed", ![jobId].result = res]
    /\ UNCHANGED now

\* an unknown job id is recorded as a failed job
FailJobCreates(jobId, error) ==
    /\ jobs' = [jobs EXCEPT ![jobId] =
                   IF @ = NoJob
                     THEN [NewJob(jobId) EXCEPT !.status = "failed", !.error = error]
                     ELSE [@ EXCEPT !.status = "failed", !.error = error]]
    /\ UNCHANGED now

failJob(jobId, error) ==
    /\ IF jobs[jobId] = NoJob
         THEN jobs' = jobs
         ELSE jobs' = [jobs EXCEPT ![jobId].status = "failed", ![jobId].error = error]
    /\ UNCHANGED now

\* getStatus(jobId): this.jobs.get(jobId)
getStatus(jobId) == IF jobs[jobId] = NoJob THEN Undefined ELSE jobs[jobId]

\* cleanup(jobId): setTimeout(() => this.jobs.delete(jobId), 3600000)
RetentionWindow == 3600000

cleanup(jobId) ==
    /\ timers' = [timers EXCEPT ![jobId] = @ + 1]
    /\ UNCHANGED <<jobs, now>>

NoCall == [op |-> "none", jobId |-> ""]
Called(op, jobId) ==
    call' = IF jobs[jobId] = NoJob THEN [op |-> op, jobId |-> jobId] ELSE NoCall

\* time passes between two calls
Tick ==
    /\ now < MaxClock
    /\ now' = now + 1
    /\ UNCHANGED <<jobs, timers, call, apiVars, deployVars, tenantVars, sts>>

Terminal(job) == job # NoJob /\ job.status \in {"completed", "failed"}

LogLength(j) == IF jobs[j] = NoJob THEN 0 ELSE Len(jobs[j].updates)

RECURSIVE Sum(_, _)
Sum(f, S) == IF S = {} THEN 0 ELSE LET x == CHOOSE y \in S : TRUE IN f[x] + Sum(f, S \ {x})

InitTracker ==
    /\ jobs = [j \in JobIds |-> NoJob]
    /\ now = 0
    /\ timers = [j \in JobIds |-> 0]
    /\ call = NoCall

CreateJobCall ==
    /\ \E j \in JobIds : jobs[j] = NoJob /\ createJob(j)
    /\ call' = NoCall
    /\ UNCHANGED <<timers, apiVars, deployVars, tenantVars, sts>>

AddUpdateCall ==
    /\ Sum([i \in JobIds |-> LogLength(i)], JobIds) < MaxUpdates
    /\ \E j \in JobIds, s \in Steps, c \in BOOLEAN :
          addUpdate(j, s, "msg", c) /\ Called("addUpdate", j)
    /\ UNCHANGED <<timers, apiVars, deployVars, tenantVars, sts>>

CompleteJobCall ==
    /\ \E j \in JobIds, r \in JobResults : completeJob(j, r) /\ Called("completeJob", j)
    /\ UNCHANGED <<timers, apiVars, deployVars, tenantVars, sts>>

FailJobCall ==
    /\ \E j \in JobIds, e \in JobErrors : failJob(j, e) /\ Called("failJob", j)
    /\ UNCHANGED <<timers, apiVars, deployVars, tenantVars, sts>>

GetStatusCall ==
    /\ \E j \in JobIds : Called("getStatus", j)
    /\ UNCHANGED <<jobs, now, timers, apiVars, deployVars, tenantVars, sts>>

CleanupCall ==
    /\ \E j \in JobIds : timers[j] < MaxTimers /\ cleanup(j)
    /\ call' = NoCall
    /\ UNCHANGED <<apiVars, deployVars, tenantVars, sts>>

\* the callback of cleanup's timer: this.jobs.delete(jobId)
CleanupTimer ==
    /\ \E j \in JobIds :
          /\ timers[j] > 0
          /\ timers' = [timers EXCEPT ![j] = @ - 1]
          /\ jobs' = [jobs EXCEPT ![j] = NoJob]
    /\ UNCHANGED <<now, call, apiVars, deployVars, tenantVars, sts>>

----------------------------------------------------------------------------
(* Files of a generated repository *)

AppIds == {"app1"}
SubProjects == {"infra", "web"}
Environments == {"dev", "prod"}

NoFile == [exists |-> FALSE, content |-> <<>>]
File(content) == [exists |-> TRUE, content |-> content]

\* crypto.createHash('md5').update(content).digest('hex'): a digest of hex
\* characters, distinct for the distinct contents of the model
HexDigits == <<"0", "1", "2", "3", "4", "5", "6", "7", "8", "9">>
Md5(content) == <<"d", HexDigits[content + 1]>>

Whitespace == {" ", "\n"}

RECURSIVE TrimStart(_)
TrimStart(s) ==
    IF s # <<>> /\ Head(s) \in Whitespace THEN TrimStart(Tail(s)) ELSE s

RECURSIVE TrimEnd(_)
TrimEnd(s) ==
    IF s # <<>> /\ s[Len(s)] \in Whitespace THEN TrimEnd(SubSeq(s, 1, Len(s) - 1)) ELSE s

Trim(s) == TrimEnd(TrimStart(s))

\* a sub-project as renderRepo writes it: package.json only
RenderedProject == [nodeModules |-> FALSE, packageJson |-> 1, hashFile |-> NoFile]
NoProject == [nodeModules |-> FALSE, packageJson |-> 0, hashFile |-> NoFile]

\* needsNpmInstall(projectPath): its return value and the .package-hash it leaves
NeedsIgnoringNodeModules(proj) ==
    IF proj.hashFile.exists /\ Trim(proj.hashFile.content) = Md5(proj.packageJson)
      THEN [need |-> FALSE, hashFile |-> proj.hashFile]
      ELSE [need |-> TRUE, hashFile |-> File(Md5(proj.packageJson))]

needsNpmInstall(proj) ==
    IF ~proj.nodeModules
      THEN [need |-> TRUE, hashFile |-> proj.hashFile]
    ELSE IF proj.packageJson = 0
      THEN [need |-> FALSE, hashFile |-> proj.hashFile]
    ELSE IF proj.hashFile.exists /\ Trim(proj.hashFile.content) = Md5(proj.packageJson)
      THEN [need |-> FALSE, hashFile |-> proj.hashFile]
    ELSE [need |-> TRUE, hashFile |-> File(Md5(proj.packageJson))]

----------------------------------------------------------------------------
(* Subprocesses: execCommand and execCdk *)

ProcNames ==
    {"installInfra", "installWeb", "bootstrap", "build", "synth", "deploy", "destroy"}

Null == -1      \* the code of a close event when a signal ended the subprocess

InstallTimeout == 300000
BootstrapTimeout == 300000
BuildTimeout == 300000
DeployTimeout == 900000
DestroyTimeout == 600000
CdkDefaultTimeout == 600000

\* execCdk: timeout: options.timeout || 600000 (0 stands for no timeout option)
ExecCdkNoDefault(timeout) == timeout

execCdkTimeout(timeout) == IF timeout = 0 THEN CdkDefaultTimeout ELSE timeout

TimeoutOf(p) ==
    CASE p \in {"installInfra", "installWeb"} -> InstallTimeout
      [] p = "bootstrap" -> execCdkTimeout(BootstrapTimeout)
      [] p = "build" -> BuildTimeout
      [] p = "synth" -> execCdkTimeout(0)
      [] p = "deploy" -> execCdkTimeout(DeployTimeout)
      [] p = "destroy" -> execCdkTimeout(DestroyTimeout)

\* the order in which one invocation calls spawn
SpawnOrder(p) ==
    CASE p = "installInfra" -> 1
      [] p = "installWeb" -> 2
      [] p = "bootstrap" -> 3
      [] p = "build" -> 4
      [] p = "synth" -> 5
      [] p = "deploy" -> 6
      [] p = "destroy" -> 1

\* the await of deployCdkStack that collects the subprocess
StageOf(p) ==
    CASE p \in {"installInfra", "installWeb"} -> "install"
      [] p = "bootstrap" -> "bootstrap"
      [] p \in {"build", "synth"} -> "build"
      [] p = "deploy" -> "deploy"
      [] p = "destroy" -> "destroy"

SubProjectOf(p) == IF p = "installInfra" THEN "infra" ELSE "web"
InstallOf(sub) == IF sub = "infra" THEN "installInfra" ELSE "installWeb"

\* state: none | running | killed (proc.kill() sent, not closed yet) | closed
\* promise: none | pending | resolved | rejected; a sub-project that needs no
\* install has Promise.resolve({exitCode: 0, stdout: '', stderr: ''}) instead
NoProc ==
    [state |-> "none", promise |-> "none", code |-> Null, exitCode |-> 0,
     stdout |-> <<>>, stderr |-> <<>>]
Spawned == [NoProc EXCEPT !.state = "running", !.promise = "pending"]

\* the close handler: exitCode: code || 0
ExitCode(code) == IF code = Null \/ code = 0 THEN 0 ELSE code

Alive(p) == procs[p].state \in {"running", "killed"}

----------------------------------------------------------------------------
(* assumeRole *)

\* `arn:aws:iam::${accountId}:role/${roleName}`
RoleArn == "arn:aws:iam::123456789012:role/VibeDeployerRole"

\* the call threw: its caller has no credentials
NoCredentials == <<>>

\* what stsClient.send(command) does when it is called for the i-th time: it
\* resolves with Credentials, resolves without them, or rejects
StsResponses(i) ==
    {[kind |-> "credentials", credentials |-> <<"session", i>>, message |-> ""],
     [kind |-> "noCredentials", credentials |-> NoCredentials, message |-> ""],
     [kind |-> "rejected", credentials |-> NoCredentials, message |-> "AccessDenied"]}

\* the inner throw and the message of the rejection, as the catch block sees it
UpstreamMessage(answer) ==
    IF answer.kind = "noCredentials"
      THEN "No credentials returned from AssumeRole"
      ELSE answer.message

AssumeRoleError(roleArn, message) == <<"Failed to assume role ", roleArn, ": ", message>>

NoSts == [sends |-> 0, ok |-> FALSE, credentials |-> NoCredentials, error |-> <<>>]

\* a second send after a failed one
AssumeRoleRetries(roleArn, send) ==
    IF send[1].kind = "credentials"
      THEN [sends |-> 1, ok |-> TRUE, credentials |-> send[1].credentials, error |-> <<>>]
    ELSE IF send[2].kind = "credentials"
      THEN [sends |-> 2, ok |-> TRUE, credentials |-> send[2].credentials, error |-> <<>>]
    ELSE [sends |-> 2, ok |-> FALSE, credentials |-> NoCredentials,
          error |-> AssumeRoleError(roleArn, UpstreamMessage(send[2]))]

\* assumeRole(params): send[i] is what the i-th stsClient.send would do; the
\* value holds the number of sends made and what the caller gets
assumeRole(roleArn, send) ==
    IF send[1].kind = "credentials"
      THEN [sends |-> 1, ok |-> TRUE, credentials |-> send[1].credentials, error |-> <<>>]
      ELSE [sends |-> 1, ok |-> FALSE, credentials |-> NoCredentials,
            error |-> AssumeRoleError(roleArn, UpstreamMessage(send[1]))]

StsSends == [1..2 -> StsResponses(1) \cup StsResponses(2)]

\* the sends STS answers: the i-th send gets one of the responses for i
Sends == {send \in StsSends : \A i \in 1..2 : send[i] \in StsResponses(i)}

----------------------------------------------------------------------------
(* getTenantConfig *)

MaxCallers == 3
\* the longest application name that a request or the model's answer carries
MaxName == 3
\* the generations started on one page
MaxGenerations == 2
\* the polls of one generation before its 30-minute timer is due: stands for
\* 1800000 / 2000
MaxPolls == 2
Callers == 1..MaxCallers

\* no identifier
NoUuid == <<>>

NoTenant == [exists |-> FALSE, tenantId |-> NoUuid, externalId |-> NoUuid]

\* uuidv4(): the k-th identifier generated by invocation c
Uuid(c, k) == <<"uuid", c, k>>

\* const config = { tenantId: uuidv4(), externalId: uuidv4() }
NewConfig(c) == [tenantId |-> Uuid(c, 1), externalId |-> Uuid(c, 2)]

TenantFile(config) ==
    [exists |-> TRUE, tenantId |-> config.tenantId, externalId |-> config.externalId]

\* readJson(TENANT_FILE)
TenantData(file) == [tenantId |-> file.tenantId, externalId |-> file.externalId]

NoCaller == [pc |-> "idle", config |-> Undefined]

\* the call, up to await fs.mkdir(DATA_DIR, { recursive: true })
getTenantConfig(c) ==
    /\ callers[c].pc = "idle"
    /\ callers' = [callers EXCEPT ![c].pc = "exists"]
    /\ UNCHANGED tenant

\* await exists(TENANT_FILE) settles: the file is read next, or a new pair is
\* generated and writeJson is called
TenantExists(c) ==
    /\ callers[c].pc = "exists"
    /\ callers' = [callers EXCEPT ![c] =
                      IF tenant.exists
                        THEN [pc |-> "readJson", config |-> Undefined]
                        ELSE [pc |-> "writeJson", config |-> NewConfig(c)]]
    /\ UNCHANGED tenant

\* await readJson(TENANT_FILE) settles: return data
TenantRead(c) ==
    /\ callers[c].pc = "readJson"
    /\ callers' = [callers EXCEPT ![c] = [pc |-> "returned", config |-> TenantData(tenant)]]
    /\ UNCHANGED tenant

\* await writeJson(TENANT_FILE, config) settles: return config
TenantWrite(c) ==
    /\ callers[c].pc = "writeJson"
    /\ tenant' = TenantFile(callers[c].config)
    /\ callers' = [callers EXCEPT ![c].pc = "returned"]

\* one invocation run from its call to its return with no other in between,
\* as in a handler that is served alone: the file it leaves
TenantAfterCall(file, c) == IF file.exists THEN file ELSE TenantFile(NewConfig(c))

----------------------------------------------------------------------------
(* generateAppSpec *)

\* pc: none | invokeBedrockSpec | generateComponentCode | done, or specFailed |
\* componentsFailed when the awaited call rejected
NoGen == [pc |-> "none", onStatus |-> FALSE]

\* onStatus(step, message): the callback takes no completed flag, and
\* StatusTracker.addUpdate(jobId, step, message) writes completed: false
OnStatus(step, message) == [step |-> step, message |-> message, completed |-> FALSE]

\* the call, up to await invokeBedrockSpec(...); log is what the callback of
\* the run has received so far
generateAppSpec(onStatus, log) ==
    /\ gen' = [pc |-> "invokeBedrockSpec", onStatus |-> onStatus]
    /\ emitted' = IF onStatus
                    THEN Append(log, OnStatus("bedrock-spec",
                                              "Generating app specification with AI"))
                    ELSE log

\* invokeBedrockSpec resolves or rejects
InvokeBedrockSpecReturns ==
    /\ gen.pc = "invokeBedrockSpec"
    /\ \/ /\ gen' = [gen EXCEPT !.pc = "generateComponentCode"]
          /\ emitted' = IF gen.onStatus
                          THEN Append(emitted,
                                      OnStatus("bedrock-components",
                                               "Generating functional React components with AI"))
                          ELSE emitted
       \/ /\ gen' = [gen EXCEPT !.pc = "specFailed"]
          /\ UNCHANGED emitted
    /\ UNCHANGED <<fsx, dpc, dargs, procs, ext, needs, stageLog, result, fsAtCheck,
                   prevRun, apiVars, trackerVars, tenantVars, sts>>

\* generateComponentCode resolves or rejects
GenerateComponentCodeReturns ==
    /\ gen.pc = "generateComponentCode"
    /\ \/ /\ gen' = [gen EXCEPT !.pc = "done"]
          /\ emitted' = IF gen.onStatus
                          THEN Append(emitted,
                                      OnStatus("bedrock-components",
                                               "Generated ${pages} pages and ${components} components"))
                          ELSE emitted
       \/ /\ gen' = [gen EXCEPT !.pc = "componentsFailed"]
          /\ UNCHANGED emitted
    /\ UNCHANGED <<fsx, dpc, dargs, procs, ext, needs, stageLog, result, fsAtCheck,
                   prevRun, apiVars, trackerVars, tenantVars, sts>>

----------------------------------------------------------------------------
(* deployCdkStack *)

Stages ==
    <<"credentials", "dependencies", "bootstrap", "build", "deploy", "outputs", "config">>

OutputKeys == {"WebBucketName", "ApiUrl", "PreviewUrl", "ProdUrl"}
NoResult == [status |-> "none"]

\* `${appName}-${environment === Environment.DEV ? 'Dev' : 'Prod'}`
StackNameOf(appName, environment) ==
    <<appName, IF environment = "dev" THEN "Dev" ELSE "Prod">>

\* the stack name of the specifications that work on one application name
StackName(environment) == StackNameOf("App", environment)

AlreadyBootstrapped == <<"already", "bootstrapped">>

\* String.prototype.includes on texts taken as sequences of words
Includes(s, pat) ==
    \E i \in 1..(Len(s) - Len(pat) + 1) : SubSeq(s, i, i + Len(pat) - 1) = pat

\* if (onStatus) onStatus(step, message)
Emit(step, message) ==
    emitted' = IF dargs.onStatus THEN Append(emitted, OnStatus(step, message)) ELSE emitted

\* a deployCdkStack without its catch block: the error leaves the function
Rethrow(error) ==
    /\ dpc' = "threw"
    /\ result' = [status |-> "threw", error |-> error]

\* the catch block of deployCdkStack
Catch(error) ==
    /\ dpc' = "returned"
    /\ result' = [stackName |-> StackName(dargs.environment),
                  environment |-> dargs.environment, outputs |-> {},
                  previewUrl |-> Undefined, prodUrl |-> Undefined,
                  status |-> "failed", error |-> error]

Throw(error, P, E) ==
    /\ Catch(error)
    /\ procs' = P
    /\ ext' = E
    /\ UNCHANGED <<stageLog, emitted>>

\* an absent key is taken for an error
ReturnRequiresKeys(outputs, P, E) ==
    /\ IF outputs = OutputKeys
         THEN /\ dpc' = "returned"
              /\ result' = [stackName |-> StackName(dargs.environment),
                            environment |-> dargs.environment, outputs |-> outputs,
                            previewUrl |-> "preview-url", prodUrl |-> "prod-url",
                            status |-> "success", error |-> <<>>]
         ELSE Catch(<<"Missing stack output">>)
    /\ procs' = P
    /\ ext' = E
    /\ UNCHANGED stageLog

\* the return statement after the last stage
ReturnSuccess(outputs, P, E) ==
    /\ dpc' = "returned"
    /\ result' = [stackName |-> StackName(dargs.environment),
                  environment |-> dargs.environment, outputs |-> outputs,
                  previewUrl |-> IF "PreviewUrl" \in outputs THEN "preview-url" ELSE Undefined,
                  prodUrl |-> IF "ProdUrl" \in outputs THEN "prod-url" ELSE Undefined,
                  status |-> "success", error |-> <<>>]
    /\ procs' = P
    /\ ext' = E
    /\ UNCHANGED stageLog

\* bootstrapCdk once execCdk(['bootstrap']) has resolved with res
BootstrapIgnoresPattern(res) ==
    IF res.exitCode # 0
      THEN [ok |-> FALSE,
            error |-> <<"CDK bootstrap failed: ">> \o
                      (IF res.stderr # <<>> THEN res.stderr ELSE res.stdout)]
      ELSE [ok |-> TRUE, error |-> <<>>]

bootstrapCdk(res) ==
    IF res.exitCode # 0
      THEN IF Includes(res.stderr, AlreadyBootstrapped)
              \/ Includes(res.stdout, AlreadyBootstrapped)
             THEN [ok |-> TRUE, error |-> <<>>]
             ELSE [ok |-> FALSE,
                   error |-> <<"CDK bootstrap failed: ">> \o
                             (IF res.stderr # <<>> THEN res.stderr ELSE res.stdout)]
      ELSE [ok |-> TRUE, error |-> <<>>]

StartBootstrap(P) ==
    /\ Emit("deploy-bootstrap", "Bootstrapping AWS CDK (first time only)")
    /\ dpc' = "bootstrap"
    /\ procs' = [P EXCEPT !["bootstrap"] = Spawned]
    /\ stageLog' = Append(stageLog, "bootstrap")
    /\ UNCHANGED <<result, ext>>

StartBuild(P) ==
    /\ Emit("deploy-build", "Building web app and synthesizing CDK")
    /\ dpc' = "build"
    /\ procs' = [P EXCEPT !["build"] = Spawned, !["synth"] = Spawned]
    /\ stageLog' = Append(stageLog, "build")
    /\ UNCHANGED <<result, ext>>

StartDeploy(P) ==
    /\ Emit("deploy-cdk", "Deploying infrastructure with CloudFormation")
    /\ dpc' = "deploy"
    /\ procs' = [P EXCEPT !["deploy"] = Spawned]
    /\ stageLog' = Append(stageLog, "deploy")
    /\ UNCHANGED <<result, ext>>

\* after await Promise.all(installPromises)
AfterInstall(P) ==
    IF P["installInfra"].exitCode # 0
      THEN Throw(<<"Infra npm install failed: ">> \o P["installInfra"].stderr, P, ext)
    ELSE IF P["installWeb"].exitCode # 0
      THEN Throw(<<"Web npm install failed: ">> \o P["installWeb"].stderr, P, ext)
    ELSE StartBootstrap(P)

\* after await bootstrapCdk(infraPath, cdkEnv)
AfterBootstrap(P) ==
    IF bootstrapCdk(P["bootstrap"]).ok
      THEN StartBuild(P)
      ELSE Throw(bootstrapCdk(P["bootstrap"]).error, P, ext)

\* after await Promise.all([build, synth])
BuildChecksSkipped(P) == StartDeploy(P)

AfterBuild(P) ==
    IF P["build"].exitCode # 0
      THEN Throw(<<"Web build failed: ">> \o P["build"].stderr, P, ext)
    ELSE IF P["synth"].exitCode # 0
      THEN Throw(<<"CDK synth failed: ">> \o P["synth"].stderr, P, ext)
    ELSE StartDeploy(P)

\* after await execCdk(['deploy', ...]): readJson(outputsFile) is called
AfterDeploy(P) ==
    IF P["deploy"].exitCode # 0
      THEN Throw(<<"CDK deploy failed: ">> \o P["deploy"].stderr, P, ext)
      ELSE /\ dpc' = "readOutputs"
           /\ procs' = P
           /\ ext' = [ext EXCEPT !.outputs = "pending"]
           /\ stageLog' = Append(stageLog, "outputs")
           /\ UNCHANGED <<result, emitted>>

\* destroyCdkStack has no catch block: the error goes to its caller
DestroyThrows(error, P) ==
    /\ dpc' = "threw"
    /\ result' = [status |-> "threw", error |-> error]
    /\ procs' = P
    /\ UNCHANGED <<ext, stageLog, emitted>>

\* the exit code of the destroy subprocess is not looked at
DestroyExitIgnored(P) ==
    /\ dpc' = "destroyed"
    /\ procs' = P
    /\ UNCHANGED <<result, ext, stageLog, emitted>>

\* after await execCdk(['destroy', stackName, '--force'], ...)
AfterDestroy(P) ==
    IF P["destroy"].exitCode # 0
      THEN DestroyThrows(<<"CDK destroy failed: ">> \o P["destroy"].stderr, P)
      ELSE /\ dpc' = "destroyed"
           /\ procs' = P
           /\ UNCHANGED <<result, ext, stageLog, emitted>>

Advance(P) ==
    CASE dpc = "install" -> AfterInstall(P)
      [] dpc = "bootstrap" -> AfterBootstrap(P)
      [] dpc = "build" -> AfterBuild(P)
      [] dpc = "deploy" -> AfterDeploy(P)
      [] dpc = "destroy" -> AfterDestroy(P)

\* Promise.all over the subprocesses of one await has resolved
AllResolved(P, stage) ==
    \A q \in ProcNames : StageOf(q) = stage => P[q].promise \in {"none", "resolved"}

----------------------------------------------------------------------------
(* The steps of one deployCdkStack invocation *)

\* JSON.stringify({ apiUrl: apiUrl, environment: environment })
ConfigContent(apiUrl, environment) == [apiUrl |-> apiUrl, environment |-> environment]
NoConfig == [apiUrl |-> "none", environment |-> "none"]

\* entry: outputsData[stackName] is set; data: the keys of outputs; body: the
\* Body of the PutObjectCommand that was sent
NoExt ==
    [credentials |-> "none", outputs |-> "none", config |-> "none",
     entry |-> FALSE, data |-> {}, body |-> NoConfig]

NoRun == [installed |-> FALSE, appId |-> "", packageJson |-> [sub \in SubProjects |-> 0]]

InstalledOk(p) == procs[p].state = "closed" /\ procs[p].promise = "resolved" /\ procs[p].code = 0

\* the call, up to await assumeRole(...)
deployCdkStack(appId, environment, onStatus) ==
    /\ \A p \in ProcNames : ~Alive(p)
    /\ dpc' = "assumeRole"
    /\ dargs' = [appId |-> appId, environment |-> environment, onStatus |-> onStatus]
    /\ procs' = [p \in ProcNames |-> NoProc]
    /\ ext' = [NoExt EXCEPT !.credentials = "pending"]
    /\ needs' = [sub \in SubProjects |-> FALSE]
    /\ stageLog' = <<"credentials">>
    /\ result' = NoResult
    /\ UNCHANGED <<fsx, fsAtCheck, prevRun, emitted, gen>>

\* destroyCdkStack: the call, up to await assumeRole(...)
destroyCdkStack(appId, environment) ==
    /\ \A p \in ProcNames : ~Alive(p)
    /\ dpc' = "destroyAssumeRole"
    /\ dargs' = [appId |-> appId, environment |-> environment, onStatus |-> FALSE]
    /\ procs' = [p \in ProcNames |-> NoProc]
    /\ ext' = NoExt
    /\ needs' = [sub \in SubProjects |-> FALSE]
    /\ stageLog' = <<>>
    /\ result' = NoResult
    /\ UNCHANGED <<fsx, fsAtCheck, prevRun, emitted, gen>>

\* assumeRole of destroyCdkStack resolves, and the destroy subprocess is
\* started, or rejects
DestroyAssumeRoleReturns ==
    /\ dpc = "destroyAssumeRole"
    /\ \E send \in Sends :
         LET credentials == assumeRole(RoleArn, send)
         IN /\ sts' = credentials
            /\ IF credentials.ok
                 THEN /\ dpc' = "destroy"
                      /\ procs' = [procs EXCEPT !["destroy"] = Spawned]
                      /\ UNCHANGED <<result, ext, stageLog, emitted>>
                 ELSE DestroyThrows(credentials.error, procs)
    /\ UNCHANGED <<fsx, dargs, needs, fsAtCheck, prevRun, gen, apiVars, trackerVars,
                   tenantVars>>

\* assumeRole resolves or rejects (AssumeRoleError)
AssumeRoleReturns ==
    /\ dpc = "assumeRole"
    /\ \E send \in Sends :
         LET credentials == assumeRole(RoleArn, send)
         IN /\ sts' = credentials
            /\ IF credentials.ok
                 THEN /\ Emit("deploy-install", "Checking dependencies")
                      /\ dpc' = "needsNpmInstall"
                      /\ ext' = [ext EXCEPT !.credentials = "ok"]
                      /\ stageLog' = Append(stageLog, "dependencies")
                      /\ UNCHANGED <<result, procs>>
                 ELSE Throw(credentials.error, procs,
                            [ext EXCEPT !.credentials = "failed"])
    /\ UNCHANGED <<fsx, dargs, needs, fsAtCheck, prevRun, gen, apiVars, trackerVars,
                   tenantVars>>

\* await Promise.all([needsNpmInstall(infraPath), needsNpmInstall(webPath)]) and
\* the synchronous code after it, up to the next await
CheckDependencies ==
    /\ dpc = "needsNpmInstall"
    /\ LET app == dargs.appId
           chk == [sub \in SubProjects |-> needsNpmInstall(fsx[app][sub])]
           P == [p \in ProcNames |->
                   IF StageOf(p) = "install" /\ chk[SubProjectOf(p)].need
                     THEN Spawned ELSE procs[p]]
       IN /\ fsx' = [fsx EXCEPT ![app] =
                       [sub \in SubProjects |->
                          [fsx[app][sub] EXCEPT !.hashFile = chk[sub].hashFile]]]
          /\ fsAtCheck' = fsx[app]
          /\ needs' = [sub \in SubProjects |-> chk[sub].need]
          /\ IF chk["infra"].need \/ chk["web"].need
               THEN /\ Emit("deploy-install", "Installing dependencies")
                    /\ dpc' = "install"
                    /\ procs' = P
                    /\ UNCHANGED <<stageLog, result, ext>>
               ELSE StartBootstrap(procs)
    /\ UNCHANGED <<dargs, prevRun, gen, apiVars, trackerVars, tenantVars, sts>>

\* <<stdout, stderr>> of a subprocess that exits with this code
BootstrapTexts ==
    {<<<<>>, <<>>>>,
     <<<<>>, <<"bootstrapped", "already">>>>,
     <<<<"stack", "already", "bootstrapped">>, <<>>>>,
     <<<<>>, <<"is", "already", "bootstrapped">>>>}

TextsOf(p, code) ==
    IF code # 1 THEN {<<<<>>, <<>>>>}
    ELSE IF p = "bootstrap" THEN BootstrapTexts
    ELSE {<<<<>>, <<>>>>, <<<<>>, <<"ERR!">>>>}

\* node_modules after an npm install that ended with this code
NodeModulesAfter(had, code) == IF code = 0 THEN TRUE ELSE had

Signalled == {p \in ProcNames : procs[p].promise = "resolved" /\ procs[p].code = Null}

CloseCodes(p) ==
    IF procs[p].state = "killed" THEN {Null}
    ELSE IF Cardinality(Signalled) < MaxSignals THEN {0, 1, Null}
    ELSE {0, 1}

\* the 'close' event of a subprocess: resolve({stdout, stderr, exitCode: code || 0}),
\* then the code of deployCdkStack that was waiting for it
ProcClose(p) ==
    /\ Alive(p)
    /\ \E code \in CloseCodes(p) :
       \E texts \in TextsOf(p, code) :
         LET pending == procs[p].promise = "pending"
             out == texts[1]
             err == texts[2]
             P == [procs EXCEPT ![p] =
                     IF pending
                       THEN [state |-> "closed", promise |-> "resolved", code |-> code,
                             exitCode |-> ExitCode(code), stdout |-> out, stderr |-> err]
                     ELSE IF dpc = "idle" THEN NoProc
                       ELSE [@ EXCEPT !.state = "closed", !.code = code]]
         IN /\ IF StageOf(p) = "install"
                 THEN fsx' = [fsx EXCEPT ![dargs.appId][SubProjectOf(p)].nodeModules =
                                             NodeModulesAfter(@, code)]
                 ELSE fsx' = fsx
            /\ IF pending /\ dpc = StageOf(p) /\ AllResolved(P, StageOf(p))
                 THEN Advance(P)
                 ELSE /\ procs' = P
                      /\ UNCHANGED <<dpc, result, stageLog, ext, emitted>>
    /\ UNCHANGED <<dargs, needs, fsAtCheck, prevRun, gen, apiVars, trackerVars, tenantVars, sts>>

\* the timers of the subprocesses spawned together fire in the order of their
\* delays, and of their creation when the delays are equal
TimerFiresFirst(p) ==
    \A q \in ProcNames \ {p} :
        (procs[q].state = "running" /\ procs[q].promise = "pending") =>
            \/ TimeoutOf(p) < TimeoutOf(q)
            \/ TimeoutOf(p) = TimeoutOf(q) /\ SpawnOrder(p) < SpawnOrder(q)

\* the setTimeout callback of execCommand: proc.kill(); reject(new Error(...)),
\* then the catch block when Promise.all / await was waiting for this promise
ProcTimeout(p) ==
    /\ TimeoutOf(p) > 0
    /\ procs[p].state = "running"
    /\ procs[p].promise = "pending"
    /\ TimerFiresFirst(p)
    /\ LET P == [procs EXCEPT ![p].state = "killed", ![p].promise = "rejected"]
       IN IF dpc = StageOf(p)
            THEN IF p = "destroy"
                   THEN DestroyThrows(<<"Command timed out after ${options.timeout}ms">>, P)
                   ELSE Throw(<<"Command timed out after ${options.timeout}ms">>, P, ext)
            ELSE /\ procs' = P
                 /\ UNCHANGED <<dpc, result, stageLog, ext, emitted>>
    /\ UNCHANGED <<fsx, dargs, needs, fsAtCheck, prevRun, gen, apiVars, trackerVars, tenantVars, sts>>

ApiEndpoint == "ApiEndpoint4F160690"

\* the keys that the stack's entry of outputs.json may hold
OutputsChoices ==
    {{}, {"WebBucketName", ApiEndpoint}, {"PreviewUrl", "ProdUrl"}, OutputKeys}

\* outputs.json as parsed: the stack's entry is missing or holds some keys
OutputsData ==
    {[present |-> FALSE, keys |-> {}]}
        \cup {[present |-> TRUE, keys |-> keys] : keys \in OutputsChoices}

\* outputsData[stackName] || {}
StackOutputs(outputsData) == IF outputsData.present THEN outputsData.keys ELSE {}

\* outputs.ApiUrl || outputs.ApiEndpoint4F160690
ApiUrl(outputs) ==
    IF "ApiUrl" \in outputs THEN "api-url"
    ELSE IF ApiEndpoint \in outputs THEN "api-endpoint" ELSE Undefined

\* readJson(outputsFile) settles; the config upload is sent when
\* outputs.WebBucketName is set
ReadOutputsReturns ==
    /\ dpc = "readOutputs"
    /\ \/ Throw(<<"ENOENT: no such file or directory">>, procs,
                [ext EXCEPT !.outputs = "failed"])
       \/ Throw(<<"Cannot read properties of null">>, procs,
                [ext EXCEPT !.outputs = "failed"])
       \/ \E outputsData \in OutputsData :
            LET outputs == StackOutputs(outputsData)
                E == [ext EXCEPT !.outputs = "ok", !.entry = outputsData.present,
                                 !.data = outputs]
            IN  IF "WebBucketName" \in outputs
                  THEN /\ Emit("deploy-config", "Uploading runtime configuration")
                       /\ dpc' = "uploadConfig"
                       /\ ext' = [E EXCEPT !.config = "pending",
                                           !.body = ConfigContent(ApiUrl(outputs),
                                                                  dargs.environment)]
                       /\ stageLog' = Append(stageLog, "config")
                       /\ UNCHANGED <<result, procs>>
                  ELSE /\ Emit("deploy-config", "Uploading runtime configuration")
                       /\ ReturnSuccess(outputs, procs, E)
    /\ UNCHANGED <<fsx, dargs, needs, fsAtCheck, prevRun, gen, apiVars, trackerVars, tenantVars, sts>>

\* s3Client.send(new PutObjectCommand(...)) settles
ConfigUploadReturns ==
    /\ dpc = "uploadConfig"
    /\ \/ ReturnSuccess(ext.data, procs, [ext EXCEPT !.config = "ok"]) /\ UNCHANGED emitted
       \/ Throw(<<"Access Denied">>, procs, [ext EXCEPT !.config = "failed"])
    /\ UNCHANGED <<fsx, dargs, needs, fsAtCheck, prevRun, gen, apiVars, trackerVars, tenantVars, sts>>

----------------------------------------------------------------------------
(* Request validation *)

Digits == {"0", "1", "2", "3", "4", "5", "6", "7", "8", "9"}
LowerCase ==
    {"a", "b", "c", "d", "e", "f", "g", "h", "i", "j", "k", "l", "m",
     "n", "o", "p", "q", "r", "s", "t", "u", "v", "w", "x", "y", "z"}
UpperCase ==
    {"A", "B", "C", "D", "E", "F", "G", "H", "I", "J", "K", "L", "M",
     "N", "O", "P", "Q", "R", "S", "T", "U", "V", "W", "X", "Y", "Z"}

\* a field of a request body: a string is the sequence of its characters; the
\* values of the enums, the application ids and the booleans are taken whole
Str(chars) == [type |-> "string", value |-> chars]
Bool(b) == [type |-> "boolean", value |-> <<b>>]
Missing == [type |-> "undefined", value |-> <<>>]

\* /^\d{12}$/
awsAccountIdSchema(f) ==
    /\ f.type = "string"
    /\ Len(f.value) = 12
    /\ \A i \in 1..12 : f.value[i] \in Digits

\* /^[a-z]{2}-[a-z]+-\d{1}$/
awsRegionSchema(f) ==
    /\ f.type = "string"
    /\ LET v == f.value
           n == Len(f.value)
       IN /\ n >= 6
          /\ v[1] \in LowerCase
          /\ v[2] \in LowerCase
          /\ v[3] = "-"
          /\ \A i \in 4..(n - 2) : v[i] \in LowerCase
          /\ v[n - 1] = "-"
          /\ v[n] \in Digits

\* .min(1).max(64).regex(/^[a-zA-Z][a-zA-Z0-9-]*$/)
appNameSchema(f) ==
    /\ f.type = "string"
    /\ Len(f.value) >= 1
    /\ Len(f.value) <= 64
    /\ f.value[1] \in LowerCase \cup UpperCase
    /\ \A i \in 2..Len(f.value) : f.value[i] \in LowerCase \cup UpperCase \cup Digits \cup {"-"}

Blueprints == {"serverless", "containers"}

blueprintSchema(f) == f.type = "string" /\ Len(f.value) = 1 /\ f.value[1] \in Blueprints

environmentSchema(f) == f.type = "string" /\ Len(f.value) = 1 /\ f.value[1] \in Environments

\* .min(10).max(5000)
promptSchema(f) == f.type = "string" /\ Len(f.value) >= 10 /\ Len(f.value) <= 5000

\* the identifiers z.string().uuid() accepts: those uuidv4() gave to the
\* applications, and one no application has
UnknownAppId == "00000000-0000-4000-8000-000000000000"
Uuids == AppIds \cup {UnknownAppId}

uuidSchema(f) == f.type = "string" /\ Len(f.value) = 1 /\ f.value[1] \in Uuids

\* z.boolean().refine((val) => val === true)
confirmSchema(f) == f.type = "boolean" /\ f.value = <<"true">>

RequestKinds == {"check", "generate", "publish", "destroy"}

\* the keys of the schema of a request, in the order of the schema
SchemaKeys(kind) ==
    CASE kind = "check" -> <<"accountId", "region">>
      [] kind = "generate" -> <<"accountId", "region", "blueprint", "prompt", "appName">>
      [] kind = "publish" -> <<"accountId", "region", "appId", "confirm">>
      [] kind = "destroy" -> <<"accountId", "region", "appId", "env", "confirm">>

\* the schema of one key of a request
KeySchema(kind, key, f) ==
    CASE key = "accountId" -> awsAccountIdSchema(f)
      [] key = "region" ->
           IF kind = "check" THEN f = Missing \/ awsRegionSchema(f) ELSE awsRegionSchema(f)
      [] key = "blueprint" -> blueprintSchema(f)
      [] key = "prompt" -> promptSchema(f)
      [] key = "appName" -> appNameSchema(f)
      [] key = "appId" -> uuidSchema(f)
      [] key = "env" -> environmentSchema(f)
      [] key = "confirm" -> confirmSchema(f)

\* every request is taken as valid
ValidateAcceptsAll(kind, body) == [ok |-> TRUE, error |-> <<>>]

\* validateRequest(schema, req.body): the parsed data, or the Error whose
\* message lists the paths of the issues
validateRequest(kind, body) ==
    LET Issue(key) == ~KeySchema(kind, key, body[key])
        issues == SelectSeq(SchemaKeys(kind), Issue)
    IN IF issues = <<>>
         THEN [ok |-> TRUE, error |-> <<>>]
         ELSE [ok |-> FALSE, error |-> <<"Validation failed: ">> \o issues]

Chars(n, c) == [i \in 1..n |-> c]

ValidAccountId == Str(<<"1", "2", "3", "4", "5", "6", "7", "8", "9", "0", "1", "2">>)
ValidRegion == Str(<<"u", "s", "-", "e", "a", "s", "t", "-", "1">>)
ValidAppName == Str(<<"M", "y", "-", "A", "p", "p", "2">>)
ValidPrompt == Str(Chars(10, "p"))

NoBody ==
    [accountId |-> Missing, region |-> Missing, blueprint |-> Missing, prompt |-> Missing,
     appName |-> Missing, appId |-> Missing, env |-> Missing, confirm |-> Missing]

\* a well-formed body of each request
ValidBody(kind) ==
    CASE kind = "check" ->
           [NoBody EXCEPT !.accountId = ValidAccountId, !.region = ValidRegion]
      [] kind = "generate" ->
           [NoBody EXCEPT !.accountId = ValidAccountId, !.region = ValidRegion,
                          !.blueprint = Str(<<"serverless">>), !.prompt = ValidPrompt,
                          !.appName = ValidAppName]
      [] kind = "publish" ->
           [NoBody EXCEPT !.accountId = ValidAccountId, !.region = ValidRegion,
                          !.appId = Str(<<"app1">>), !.confirm = Bool("true")]
      [] kind = "destroy" ->
           [NoBody EXCEPT !.accountId = ValidAccountId, !.region = ValidRegion,
                          !.appId = Str(<<"app1">>), !.env = Str(<<"dev">>),
                          !.confirm = Bool("true")]

\* the values a client sends for a key
KeyValues(key) ==
    CASE key = "accountId" ->
           {ValidAccountId, Missing,
            Str(Chars(11, "1")),
            Str(<<"1", "2", "3", "4", "5", "6", "7", "8", "9", "0", "1", "x">>)}
      [] key = "region" ->
           {ValidRegion, Missing,
            Str(<<"U", "S", "-", "e", "a", "s", "t", "-", "1">>),
            Str(<<"u", "s", "-", "e", "a", "s", "t", "-", "1", "2">>),
            Str(<<"u", "s", "-", "-", "1">>)}
      [] key = "blueprint" -> {Str(<<"serverless">>), Str(<<"static">>), Missing}
      [] key = "prompt" ->
           {ValidPrompt, Str(Chars(9, "p")), Str(Chars(5000, "p")), Str(Chars(5001, "p")),
            Missing}
      [] key = "appName" ->
           {ValidAppName, Str(<<>>), Str(<<"2", "a", "p", "p">>),
            Str(<<"m", "y", " ", "a", "p", "p">>), Str(Chars(65, "a")), Missing}
      [] key = "appId" ->
           {Str(<<"app1">>), Str(<<UnknownAppId>>), Str(<<"not-a-uuid">>), Missing}
      [] key = "env" -> {Str(<<"dev">>), Str(<<"prod">>), Str(<<"staging">>), Missing}
      [] key = "confirm" -> {Bool("true"), Bool("false"), Str(<<"true">>), Missing}

\* the bodies a client sends: a well-formed body with one key changed
BodiesOf(kind) ==
    {ValidBody(kind)} \cup
    UNION {{[ValidBody(kind) EXCEPT ![SchemaKeys(kind)[i]] = v] :
               v \in KeyValues(SchemaKeys(kind)[i])} : i \in 1..Len(SchemaKeys(kind))}

Bodies == [kind \in RequestKinds |-> BodiesOf(kind)]

\* what validateRequest does with each of them
Validated ==
    [kind \in RequestKinds |-> [body \in Bodies[kind] |-> validateRequest(kind, body)]]

----------------------------------------------------------------------------
(* The handlers of POST /api/generate and POST /api/publish *)

NoManifest == [exists |-> FALSE]
\* tenant: what getTenantConfig returned to the handlers of the connection flow
NoReq ==
    [kind |-> "none", appId |-> "", pc |-> "", manifest |-> NoManifest, body |-> NoBody,
     tenant |-> TenantData(NoTenant)]
\* data: the other fields of a JSON body, as pairs <<key, value>>
NoResponse == [status |-> 0, message |-> <<>>, url |-> "", data |-> {}]

\* createManifest: deployments: {}
NewManifest(appId) ==
    [exists |-> TRUE, appId |-> appId, createdAt |-> runs, updatedAt |-> runs,
     deployments |-> [dev |-> NoResult, prod |-> NoResult]]

\* manifest.deployments.<env> = deployment; manifest.updatedAt = new Date()...
MergedDeployment(m, environment, deployment) ==
    [m EXCEPT !.deployments[environment] =
                  IF @.status = "none" THEN deployment
                  ELSE [deployment EXCEPT !.outputs = @ \cup m.deployments[environment].outputs],
              !.updatedAt = runs]

WithDeployment(m, environment, deployment) ==
    [m EXCEPT !.deployments[environment] = deployment, !.updatedAt = runs]

\* the entry of the other environment is deleted as well
WithoutDeployments(m, environment) ==
    [m EXCEPT !.deployments = [e \in Environments |-> NoResult], !.updatedAt = runs]

\* delete manifest.deployments.<env>; manifest.updatedAt = new Date()...
WithoutDeployment(m, environment) ==
    [m EXCEPT !.deployments[environment] = NoResult, !.updatedAt = runs]

\* GET /api/apps: one item for each directory of /work that has a manifest
listApps ==
    {[appId |-> manifest[a].appId,
      devUrl |-> manifest[a].deployments.dev.status # "none",
      prodUrl |-> manifest[a].deployments.prod.status # "none",
      createdAt |-> manifest[a].createdAt] : a \in {b \in AppIds : manifest[b].exists}}

\* if (deployment.status === 'failed') throw ...
FailedIgnored(deployment) == FALSE
DeploymentFailed(deployment) == deployment.status = "failed"

\* the URL is left out of the response
UrlDropped(url) == ""

\* deployment.previewUrl || ''
OrEmpty(url) == IF url = Undefined THEN "" ELSE url

\* res.status(500).json({error, message})
Respond500(message) ==
    /\ response' = [status |-> 500, message |-> message, url |-> "", data |-> {}]
    /\ req' = NoReq

\* res.status(400).json({error, message})
Respond400(message) ==
    /\ response' = [status |-> 400, message |-> message, url |-> "", data |-> {}]
    /\ req' = NoReq

\* res.json(response)
Respond200(url) ==
    /\ response' = [status |-> 200, message |-> <<>>, url |-> url, data |-> {}]
    /\ req' = NoReq

\* the handler up to await assumeRole(...): validateRequest, getTenantConfig
PostGenerate ==
    /\ req.kind = "none"
    /\ runs < MaxRuns
    /\ runs' = runs + 1
    /\ sts' = NoSts
    /\ \E body \in Bodies["generate"] :
         LET data == Validated["generate"][body]
         IN IF ~data.ok
              THEN /\ Respond500(data.error)
                   /\ UNCHANGED tenant
              ELSE /\ \E appId \in AppIds :
                        /\ ~manifest[appId].exists
                        /\ fsx[appId]["infra"].packageJson = 0
                        /\ req' = [NoReq EXCEPT !.kind = "generate", !.appId = appId,
                                                !.pc = "assumeRole", !.body = body]
                   /\ tenant' = TenantAfterCall(tenant, 0)
                   /\ response' = NoResponse
    /\ UNCHANGED <<manifest, deployVars, trackerVars, callers, connection, served, ui>>

\* the handler goes on although assumeRole rejected
GenerateAssumeRoleIgnored ==
    /\ req.kind = "generate"
    /\ req.pc = "assumeRole"
    /\ \E send \in Sends :
         /\ sts' = assumeRole(RoleArn, send)
         /\ req' = [req EXCEPT !.pc = "generateAppSpec"]
         /\ UNCHANGED response
    /\ UNCHANGED <<manifest, runs, deployVars, trackerVars, tenantVars>>

\* await assumeRole(...) of the handler
GenerateAssumeRole ==
    /\ req.kind = "generate"
    /\ req.pc = "assumeRole"
    /\ \E send \in Sends :
         LET credentials == assumeRole(RoleArn, send)
         IN /\ sts' = credentials
            /\ IF credentials.ok
                 THEN req' = [req EXCEPT !.pc = "generateAppSpec"] /\ UNCHANGED response
                 ELSE Respond500(credentials.error)
    /\ UNCHANGED <<manifest, runs, deployVars, trackerVars, tenantVars>>

\* await generateAppSpec(prompt, blueprint, credentials)
GenerateAppSpec ==
    /\ req.kind = "generate"
    /\ req.pc = "generateAppSpec"
    /\ \/ req' = [req EXCEPT !.pc = "renderRepo"] /\ UNCHANGED <<response, sts>>
       \/ Respond500(<<"Bedrock error">>) /\ sts' = NoSts
    /\ UNCHANGED <<manifest, runs, deployVars, trackerVars, tenantVars>>

\* await renderRepo(...): the sub-projects, the manifest, then git init / commit
RenderRepo ==
    /\ req.kind = "generate"
    /\ req.pc = "renderRepo"
    /\ fsx' = [fsx EXCEPT ![req.appId] = [sub \in SubProjects |-> RenderedProject]]
    /\ manifest' = [manifest EXCEPT ![req.appId] = NewManifest(req.appId)]
    /\ \/ req' = [req EXCEPT !.pc = "deployCdkStack"] /\ UNCHANGED <<response, sts>>
       \/ Respond500(<<"git failed">>) /\ sts' = NoSts
    /\ UNCHANGED <<runs, dpc, dargs, procs, ext, needs, stageLog, result, fsAtCheck,
                   prevRun, emitted, gen, trackerVars, tenantVars>>

GenerateDeploy ==
    /\ req.kind = "generate"
    /\ req.pc = "deployCdkStack"
    /\ deployCdkStack(req.appId, "dev", FALSE)
    /\ req' = [req EXCEPT !.pc = "awaitDeploy"]
    /\ UNCHANGED <<response, manifest, runs, trackerVars, tenantVars, sts>>

\* the handler has the DeploymentResult: the locals of the invocation are dropped;
\* what the next invocation is compared with is kept in prevRun
InvocationEnds ==
    /\ dpc' = "idle"
    /\ procs' = [p \in ProcNames |-> IF Alive(p) THEN procs[p] ELSE NoProc]
    /\ ext' = NoExt
    /\ needs' = [sub \in SubProjects |-> FALSE]
    /\ stageLog' = <<>>
    /\ result' = NoResult
    /\ fsAtCheck' = [sub \in SubProjects |-> NoProject]
    /\ emitted' = <<>>
    /\ gen' = NoGen
    /\ sts' = NoSts
    /\ prevRun' = IF \A sub \in SubProjects : InstalledOk(InstallOf(sub))
                     THEN [installed |-> TRUE, appId |-> dargs.appId,
                           packageJson |->
                             [sub \in SubProjects |-> fsAtCheck[sub].packageJson]]
                     ELSE NoRun
    /\ UNCHANGED <<fsx, dargs>>

\* deployCdkStack has returned: the throw on failure, else readJson, the update
\* of deployments.dev and updatedAt, writeJson and the response
GenerateAfterDeploy ==
    /\ req.kind = "generate"
    /\ req.pc = "awaitDeploy"
    /\ dpc = "returned"
    /\ InvocationEnds
    /\ IF DeploymentFailed(result)
         THEN /\ Respond500(result.error)
              /\ UNCHANGED manifest
         ELSE /\ manifest' = [manifest EXCEPT ![req.appId] =
                                WithDeployment(@, "dev", result)]
              /\ Respond200(OrEmpty(result.previewUrl))
    /\ UNCHANGED <<runs, trackerVars, tenantVars>>

\* a publish handler that does not look for the manifest before it deploys
PostPublishUnchecked ==
    /\ req.kind = "none"
    /\ runs < MaxRuns
    /\ runs' = runs + 1
    /\ sts' = NoSts
    /\ \E body \in Bodies["publish"] :
         LET data == Validated["publish"][body]
             appId == body.appId.value[1]
         IN IF ~data.ok
              THEN /\ Respond500(data.error)
                   /\ UNCHANGED <<deployVars, tenant>>
            ELSE IF appId \notin AppIds
              THEN /\ Respond500(<<"App not found">>)
                   /\ UNCHANGED <<deployVars, tenant>>
            ELSE /\ tenant' = TenantAfterCall(tenant, 0)
                 /\ deployCdkStack(appId, "prod", FALSE)
                 /\ req' = [kind |-> "publish", appId |-> appId, pc |-> "awaitDeploy",
                            manifest |-> manifest[appId], body |-> body,
                            tenant |-> TenantData(NoTenant)]
                 /\ response' = NoResponse
    /\ UNCHANGED <<manifest, trackerVars, callers, connection, served, ui>>

\* the handler up to await deployCdkStack(...): validateRequest, 'App not found'
\* without a manifest, readJson, getTenantConfig
PostPublish ==
    /\ req.kind = "none"
    /\ runs < MaxRuns
    /\ runs' = runs + 1
    /\ sts' = NoSts
    /\ \E body \in Bodies["publish"] :
         LET data == Validated["publish"][body]
             appId == body.appId.value[1]
         IN IF ~data.ok
              THEN /\ Respond500(data.error)
                   /\ UNCHANGED <<deployVars, tenant>>
            ELSE IF appId \notin AppIds \/ ~manifest[appId].exists
              THEN /\ Respond500(<<"App not found">>)
                   /\ UNCHANGED <<deployVars, tenant>>
            ELSE /\ tenant' = TenantAfterCall(tenant, 0)
                 /\ deployCdkStack(appId, "prod", FALSE)
                 /\ req' = [kind |-> "publish", appId |-> appId, pc |-> "awaitDeploy",
                            manifest |-> manifest[appId], body |-> body,
                            tenant |-> TenantData(NoTenant)]
                 /\ response' = NoResponse
    /\ UNCHANGED <<manifest, trackerVars, callers, connection, served, ui>>

\* deployCdkStack has returned: the throw on failure, else the update of the
\* manifest object read before the deployment, writeJson and the response
PublishAfterDeploy ==
    /\ req.kind = "publish"
    /\ req.pc = "awaitDeploy"
    /\ dpc = "returned"
    /\ InvocationEnds
    /\ IF DeploymentFailed(result)
         THEN /\ Respond500(result.error)
              /\ UNCHANGED manifest
         ELSE /\ manifest' = [manifest EXCEPT ![req.appId] =
                                WithDeployment(req.manifest, "prod", result)]
              /\ Respond200(OrEmpty(result.prodUrl))
    /\ UNCHANGED <<runs, trackerVars, tenantVars>>

\* the handler up to await destroyCdkStack(...): validateRequest, 'App not
\* found' without a manifest, readJson, getTenantConfig
PostDestroy ==
    /\ req.kind = "none"
    /\ runs < MaxRuns
    /\ runs' = runs + 1
    /\ sts' = NoSts
    /\ \E body \in Bodies["destroy"] :
         LET data == Validated["destroy"][body]
             appId == body.appId.value[1]
         IN IF ~data.ok
              THEN /\ Respond500(data.error)
                   /\ UNCHANGED <<deployVars, tenant>>
            ELSE IF appId \notin AppIds \/ ~manifest[appId].exists
              THEN /\ Respond500(<<"App not found">>)
                   /\ UNCHANGED <<deployVars, tenant>>
            ELSE /\ tenant' = TenantAfterCall(tenant, 0)
                 /\ destroyCdkStack(appId, body.env.value[1])
                 /\ req' = [kind |-> "destroy", appId |-> appId, pc |-> "awaitDestroy",
                            manifest |-> manifest[appId], body |-> body,
                            tenant |-> TenantData(NoTenant)]
                 /\ response' = NoResponse
    /\ UNCHANGED <<manifest, trackerVars, callers, connection, served, ui>>

\* the caller of destroyCdkStack has its outcome: the locals of the invocation
\* are dropped
DestroyEnds ==
    /\ dpc' = "idle"
    /\ procs' = [p \in ProcNames |-> IF Alive(p) THEN procs[p] ELSE NoProc]
    /\ result' = NoResult
    /\ sts' = NoSts
    /\ UNCHANGED <<fsx, dargs, ext, needs, stageLog, fsAtCheck, prevRun, emitted, gen>>

\* destroyCdkStack has settled: the catch block when it threw, else the entry
\* is deleted from the manifest object read before, writeJson and the response
DestroyAfter ==
    /\ req.kind = "destroy"
    /\ req.pc = "awaitDestroy"
    /\ dpc \in {"destroyed", "threw"}
    /\ DestroyEnds
    /\ IF dpc = "threw"
         THEN /\ Respond500(result.error)
              /\ UNCHANGED manifest
         ELSE /\ manifest' = [manifest EXCEPT ![req.appId] =
                                WithoutDeployment(req.manifest, dargs.environment)]
              /\ Respond200("")
    /\ UNCHANGED <<runs, trackerVars, tenantVars>>

\* the values of a JSON body are taken as tuples
Json(value) == <<value>>

ControlPlaneAccountId == "123456789012"
RoleName == "VibeDeployerRole"
Regions == {"us-east-1", "eu-west-1"}

NoConnection ==
    [exists |-> FALSE, tenantId |-> NoUuid, externalId |-> NoUuid,
     roleArn |-> <<>>, verifiedAt |-> <<>>]

\* verifyConnection once assumeRole has settled: the connectionConfig that
\* writeJson(connectionFile, ...) leaves, or the file as it was
verifyConnection(file, externalId, tenantId, credentials) ==
    IF credentials.ok
      THEN [exists |-> TRUE, tenantId |-> tenantId,
            externalId |-> externalId, roleArn |-> Json(RoleArn),
            verifiedAt |-> Json(runs)]
      ELSE file

\* { ok: true, roleArn } or { ok: false, error }; the error is the message of
\* the response
VerificationBody(key, credentials) ==
    IF credentials.ok
      THEN {<<key, Json("true")>>, <<"roleArn", Json(RoleArn)>>}
      ELSE {<<key, Json("false")>>}

\* InitResponse
InitResponse(tenantId, credentials) ==
    {<<"tenantId", tenantId>>, <<"defaultRegion", Json("us-east-1")>>,
     <<"roleName", Json(RoleName)>>,
     <<"controlPlaneAccountId", Json(ControlPlaneAccountId)>>}
        \cup VerificationBody("connected", credentials)

\* ConnectUrlResponse: the query parameters of the URL (the template body
\* left out)
buildQuickCreateUrl(region, externalId) ==
    {<<"url.region", Json(region)>>, <<"url.stackName", Json("VibeDeployerStack")>>,
     <<"url.param_0.ControlPlaneAccountId", Json(ControlPlaneAccountId)>>,
     <<"url.param_0.ExternalId", externalId>>,
     <<"url.param_0.RoleName", Json(RoleName)>>}

\* POST /api/check up to await assumeRole(...) of verifyConnection:
\* validateRequest, getTenantConfig
PostCheck ==
    /\ req.kind = "none"
    /\ runs < MaxRuns
    /\ runs' = runs + 1
    /\ sts' = NoSts
    /\ \E body \in Bodies["check"] :
         LET data == Validated["check"][body]
         IN IF ~data.ok
              THEN /\ Respond400(data.error)
                   /\ UNCHANGED tenant
              ELSE /\ tenant' = TenantAfterCall(tenant, 0)
                   /\ req' = [NoReq EXCEPT !.kind = "check", !.pc = "assumeRole",
                                           !.body = body, !.tenant = TenantData(tenant')]
                   /\ response' = NoResponse
    /\ UNCHANGED <<manifest, deployVars, trackerVars, callers, connection, served, ui>>

\* assumeRole of verifyConnection settles: the connection file is written and
\* {ok: true, roleArn} is sent, or {ok: false, error}
CheckAssumeRole ==
    /\ req.kind = "check"
    /\ req.pc = "assumeRole"
    /\ \E send \in Sends :
         LET credentials == assumeRole(RoleArn, send)
         IN /\ sts' = credentials
            /\ connection' = verifyConnection(connection, req.tenant.externalId,
                                              TenantData(tenant).tenantId, credentials)
            /\ response' = [status |-> 200, message |-> credentials.error, url |-> "",
                            data |-> VerificationBody("ok", credentials)]
            /\ req' = NoReq
    /\ UNCHANGED <<manifest, runs, deployVars, trackerVars, tenant, callers, served, ui>>

\* GET /api/init up to await assumeRole(...) of verifyConnection
GetInit ==
    /\ req.kind = "none"
    /\ runs < MaxRuns
    /\ runs' = runs + 1
    /\ sts' = NoSts
    /\ tenant' = TenantAfterCall(tenant, 0)
    /\ req' = [NoReq EXCEPT !.kind = "init", !.pc = "assumeRole",
                            !.tenant = TenantData(tenant')]
    /\ response' = NoResponse
    /\ UNCHANGED <<manifest, deployVars, trackerVars, callers, connection, served, ui>>

\* assumeRole of verifyConnection settles and res.json(response) is sent
InitAssumeRole ==
    /\ req.kind = "init"
    /\ req.pc = "assumeRole"
    /\ \E send \in Sends :
         LET credentials == assumeRole(RoleArn, send)
         IN /\ sts' = credentials
            /\ connection' = verifyConnection(connection, req.tenant.externalId,
                                              TenantData(tenant).tenantId, credentials)
            /\ response' = [status |-> 200, message |-> <<>>, url |-> "",
                            data |-> InitResponse(req.tenant.tenantId, credentials)]
            /\ req' = NoReq
    /\ UNCHANGED <<manifest, runs, deployVars, trackerVars, tenant, callers, served, ui>>

\* GET /api/connect-url up to await fs.readFile(CONNECT_TEMPLATE_PATH) of
\* buildQuickCreateUrl: getTenantConfig
GetConnectUrl ==
    /\ req.kind = "none"
    /\ runs < MaxRuns
    /\ runs' = runs + 1
    /\ sts' = NoSts
    /\ tenant' = TenantAfterCall(tenant, 0)
    /\ req' = [NoReq EXCEPT !.kind = "connect-url", !.pc = "readFile",
                            !.tenant = TenantData(tenant')]
    /\ response' = NoResponse
    /\ UNCHANGED <<manifest, deployVars, trackerVars, callers, connection, served, ui>>

\* the template is read and the URL for the region of the query is sent, or
\* fs.readFile rejects
ConnectUrlReadFile ==
    /\ req.kind = "connect-url"
    /\ req.pc = "readFile"
    /\ \/ \E region \in Regions :
            /\ response' = [status |-> 200, message |-> <<>>, url |-> "",
                            data |-> buildQuickCreateUrl(region, req.tenant.externalId)]
            /\ req' = NoReq
       \/ Respond500(<<"ENOENT: no such file or directory">>)
    /\ UNCHANGED <<manifest, runs, deployVars, trackerVars, tenantVars, sts>>

----------------------------------------------------------------------------
(* The page of the UI: handleGenerate *)

\* setInterval(..., 2000) and setTimeout(..., 1800000)
PollInterval == 2000
GenerationTimeout == 1800000

Generations == 1..MaxGenerations

\* one call of handleGenerate. pc: none | generate (await api.generate) |
\* polling (the interval is set) | stopped (clearInterval) | rejected;
\* generating: the value of the state variable in the closure of the call;
\* timer: none | pending | fired; ticks: the interval callbacks run so far;
\* inflight: the polls that await api.getGenerateStatus
NoGeneration ==
    [pc |-> "none", generating |-> FALSE, timer |-> "none", ticks |-> 0, inflight |-> 0]

NoPage ==
    [generating |-> FALSE, generateError |-> "", bedrockError |-> "", previewUrl |-> "",
     currentAppId |-> "", generationStatus |-> 0,
     generations |-> [g \in Generations |-> NoGeneration]]

\* what api.getGenerateStatus(jobId) resolves with; updates is the length of
\* status.updates
PollAnswers ==
    {[status |-> "in_progress", updates |-> n, error |-> "", appId |-> "",
      previewUrl |-> ""] : n \in {0, 1}}
      \cup {[status |-> "completed", updates |-> 1, error |-> "", appId |-> "app1",
             previewUrl |-> url] : url \in {"", "preview-url"}}
      \cup {[status |-> "failed", updates |-> 1, error |-> e, appId |-> "",
             previewUrl |-> ""] : e \in {"", "Bedrock access denied", "CDK deploy failed"}}

TimeoutMessage == "Generation timeout - please check your AWS console"

\* the click on 'Generate & Preview', up to await api.generate(...); the button
\* is disabled while generating
handleGenerate(g) ==
    /\ ~ui.generating
    /\ ui.generations[g].pc = "none"
    /\ \A k \in Generations : k < g => ui.generations[k].pc # "none"
    /\ ui' = [ui EXCEPT !.generating = TRUE, !.generateError = "", !.bedrockError = "",
                        !.previewUrl = "", !.generationStatus = 0,
                        !.generations[g] = [NoGeneration EXCEPT
                                              !.pc = "generate",
                                              !.generating = ui.generating]]

\* api.generate resolves with a job id: setInterval and setTimeout; or it
\* rejects: the catch block of handleGenerate
GenerateReturns(g) ==
    /\ ui.generations[g].pc = "generate"
    /\ \/ ui' = [ui EXCEPT !.generations[g].pc = "polling",
                           !.generations[g].timer = "pending"]
       \/ ui' = [ui EXCEPT !.generations[g].pc = "rejected",
                           !.generateError = "Network Error",
                           !.generating = FALSE]

\* the interval fires: the callback runs up to await api.getGenerateStatus(jobId)
PollTick(g) ==
    /\ ui.generations[g].pc = "polling"
    /\ ui.generations[g].ticks < MaxPolls
    /\ ui' = [ui EXCEPT !.generations[g].ticks = @ + 1,
                        !.generations[g].inflight = @ + 1]

\* status.error?.includes('Bedrock') || status.error?.includes('bedrock')
MentionsBedrock(error) == error = "Bedrock access denied"

\* api.getGenerateStatus settles: it throws (caught, the interval stays), or
\* the callback goes on with the status
PollReturns(g) ==
    /\ ui.generations[g].inflight > 0
    /\ \/ ui' = [ui EXCEPT !.generations[g].inflight = @ - 1]
       \/ \E status \in PollAnswers :
            LET shown == [ui EXCEPT !.generations[g].inflight = @ - 1,
                                    !.generationStatus = status.updates]
                stopped == [shown EXCEPT !.generations[g].pc = "stopped",
                                         !.generating = FALSE]
            IN ui' = CASE status.status = "completed" ->
                            [stopped EXCEPT !.currentAppId = status.appId,
                                            !.previewUrl = status.previewUrl]
                       [] status.status = "failed" ->
                            [stopped EXCEPT
                               !.generateError = IF status.error = ""
                                                   THEN "Generation failed"
                                                   ELSE status.error,
                               !.bedrockError = IF MentionsBedrock(status.error)
                                                  THEN status.error ELSE @]
                       [] OTHER -> shown

\* the callback of setTimeout(..., 1800000): clearInterval(pollInterval), then
\* if (generating) with the generating of the call's closure
GenerationTimer(g) ==
    /\ ui.generations[g].timer = "pending"
    /\ ui.generations[g].ticks = MaxPolls \/ ui.generations[g].pc = "stopped"
    /\ LET cleared == [ui EXCEPT !.generations[g].timer = "fired",
                                 !.generations[g].pc = "stopped"]
       IN ui' = IF ui.generations[g].generating
                  THEN [cleared EXCEPT !.generating = FALSE,
                                       !.generateError = TimeoutMessage]
                  ELSE cleared

UiUnchanged == UNCHANGED <<apiVars, deployVars, trackerVars, tenant, callers, connection,
                           served, sts>>

ClickGenerate == (\E g \in Generations : handleGenerate(g)) /\ UiUnchanged
ApiGenerateSettles == (\E g \in Generations : GenerateReturns(g)) /\ UiUnchanged
IntervalFires == (\E g \in Generations : PollTick(g)) /\ UiUnchanged
PollSettles == (\E g \in Generations : PollReturns(g)) /\ UiUnchanged
TimeoutFires == (\E g \in Generations : GenerationTimer(g)) /\ UiUnchanged

----------------------------------------------------------------------------
(* The generate, publish and destroy handlers served at the same time *)

\* Each handler is cut at its await of deployCdkStack / destroyCdkStack, and the
\* pipeline run in between is taken by its outcome.
Handlers == {"generate", "publish", "destroy"}

\* manifest: the object that readJson(manifestPath) gave the handler;
\* stackName: the stack that the handler's pipeline call works on
NoHandler ==
    [pc |-> "none", appId |-> "", env |-> "", manifest |-> NoManifest,
     stackName |-> <<>>, deployment |-> NoResult]

NameAlphabet == {"a", "-", " "}
Names == UNION {[1..n -> NameAlphabet] : n \in 1..MaxName}
\* the appName of a request body that validateRequest lets through
AppNames == {name \in Names : appNameSchema(Str(name))}
\* spec.name as the model answered: validateSpec wants a non-empty string
SpecNames == Names

\* .replace(/-+/g, '-')
RECURSIVE Collapse(_)
Collapse(s) ==
    IF Len(s) < 2 THEN s
    ELSE IF s[1] = "-" /\ s[2] = "-" THEN Collapse(Tail(s))
    ELSE <<s[1]>> \o Collapse(Tail(s))

\* .replace(/^-|-$/g, '')
StripEnds(s) ==
    LET t == IF s # <<>> /\ s[1] = "-" THEN Tail(s) ELSE s
    IN IF t # <<>> /\ t[Len(t)] = "-" THEN SubSeq(t, 1, Len(t) - 1) ELSE t

\* name.replace(/[^a-zA-Z0-9-]/g, '-').replace(/-+/g, '-').replace(/^-|-$/g, '')
Sanitize(name) ==
    StripEnds(Collapse([i \in 1..Len(name) |->
                          IF name[i] \in LowerCase \cup UpperCase \cup Digits \cup {"-"}
                            THEN name[i] ELSE "-"]))

\* createManifest(repoPath, appId, spec, accountId, region): appName: spec.name
createManifest(appId, spec) ==
    [exists |-> TRUE, appId |-> appId, appName |-> spec.name, createdAt |-> runs,
     updatedAt |-> runs, deployments |-> [dev |-> NoResult, prod |-> NoResult]]

\* the DeploymentResult of a run that went through all stages
SuccessResult(stackName, environment, outputs) ==
    [stackName |-> stackName, environment |-> environment, outputs |-> outputs,
     previewUrl |-> IF "PreviewUrl" \in outputs THEN "preview-url" ELSE Undefined,
     prodUrl |-> IF "ProdUrl" \in outputs THEN "prod-url" ELSE Undefined,
     status |-> "success", error |-> <<>>]

\* the DeploymentResult of the catch block
FailedResult(stackName, environment, error) ==
    [stackName |-> stackName, environment |-> environment, outputs |-> {},
     previewUrl |-> Undefined, prodUrl |-> Undefined, status |-> "failed",
     error |-> error]

DeploymentResults(stackName, environment) ==
    {SuccessResult(stackName, environment, outputs) : outputs \in OutputsChoices}
        \cup {FailedResult(stackName, environment, <<"CDK deploy failed: ", "ERR!">>)}

\* await writeJson(manifestPath, manifest): the file becomes the object that
\* the handler read, with the handler's change
WriteManifest(h, m, deployments) ==
    [manifest EXCEPT ![served[h].appId] =
       [m EXCEPT !.deployments = deployments, !.updatedAt = runs]]

\* POST /api/generate up to await deployCdkStack(...): a step before renderRepo
\* fails, or renderRepo writes the repository with the manifest
ServeGenerate ==
    /\ served["generate"].pc = "none"
    /\ runs < MaxRuns
    /\ runs' = runs + 1
    /\ \E appId \in {a \in AppIds : ~manifest[a].exists},
          appName \in AppNames, name \in SpecNames :
         \/ /\ served' = [served EXCEPT !["generate"] =
                            [NoHandler EXCEPT !.pc = "failed"]]
            /\ UNCHANGED manifest
         \/ /\ served' = [served EXCEPT !["generate"] =
                            [NoHandler EXCEPT !.pc = "awaitDeploy", !.appId = appId,
                                              !.env = "dev",
                                              !.stackName =
                                                  StackNameOf(Sanitize(appName), "dev")]]
            /\ manifest' = [manifest EXCEPT ![appId] =
                              createManifest(appId, [name |-> name])]
    /\ UNCHANGED <<req, response, deployVars, trackerVars, tenant, callers,
                   connection, sts, ui>>

\* deployCdkStack settles: the throw on a failed deployment, or readJson,
\* manifest.deployments.dev = deployment and writeJson
GenerateSettles ==
    /\ served["generate"].pc = "awaitDeploy"
    /\ \E deployment \in DeploymentResults(served["generate"].stackName, "dev") :
         IF DeploymentFailed(deployment)
           THEN /\ served' = [served EXCEPT !["generate"].pc = "failed"]
                /\ UNCHANGED manifest
           ELSE LET m == manifest[served["generate"].appId]
                IN /\ served' = [served EXCEPT !["generate"].pc = "done",
                                               !["generate"].manifest = m,
                                               !["generate"].deployment = deployment]
                   /\ manifest' =
                        WriteManifest("generate", m,
                                      [m.deployments EXCEPT !["dev"] = deployment])
    /\ UNCHANGED <<req, response, runs, deployVars, trackerVars, tenant, callers,
                   connection, sts, ui>>

\* POST /api/publish up to await deployCdkStack(...)
ServePublish ==
    /\ served["publish"].pc = "none"
    /\ runs < MaxRuns
    /\ runs' = runs + 1
    /\ \E appId \in AppIds :
         served' = [served EXCEPT !["publish"] =
                      IF manifest[appId].exists
                        THEN [NoHandler EXCEPT
                                !.pc = "awaitDeploy", !.appId = appId, !.env = "prod",
                                !.manifest = manifest[appId],
                                !.stackName =
                                    StackNameOf(Sanitize(manifest[appId].appName), "prod")]
                        ELSE [NoHandler EXCEPT !.pc = "failed", !.appId = appId]]
    /\ UNCHANGED <<req, response, manifest, deployVars, trackerVars, tenant, callers,
                   connection, sts, ui>>

\* deployCdkStack settles: the throw on a failed deployment, or
\* manifest.deployments.prod = deployment and writeJson
PublishSettles ==
    /\ served["publish"].pc = "awaitDeploy"
    /\ \E deployment \in DeploymentResults(served["publish"].stackName, "prod") :
         IF DeploymentFailed(deployment)
           THEN /\ served' = [served EXCEPT !["publish"].pc = "failed"]
                /\ UNCHANGED manifest
           ELSE /\ served' = [served EXCEPT !["publish"].pc = "done",
                                            !["publish"].deployment = deployment]
                /\ manifest' =
                     WriteManifest("publish", served["publish"].manifest,
                                   [served["publish"].manifest.deployments
                                      EXCEPT !["prod"] = deployment])
    /\ UNCHANGED <<req, response, runs, deployVars, trackerVars, tenant, callers,
                   connection, sts, ui>>

\* POST /api/destroy up to await destroyCdkStack(...)
ServeDestroy ==
    /\ served["destroy"].pc = "none"
    /\ runs < MaxRuns
    /\ runs' = runs + 1
    /\ \E appId \in AppIds, env \in Environments :
         served' = [served EXCEPT !["destroy"] =
                      IF manifest[appId].exists
                        THEN [NoHandler EXCEPT
                                !.pc = "awaitDestroy", !.appId = appId, !.env = env,
                                !.manifest = manifest[appId],
                                !.stackName =
                                    StackNameOf(Sanitize(manifest[appId].appName), env)]
                        ELSE [NoHandler EXCEPT !.pc = "failed", !.appId = appId,
                                               !.env = env]]
    /\ UNCHANGED <<req, response, manifest, deployVars, trackerVars, tenant, callers,
                   connection, sts, ui>>

\* destroyCdkStack settles: it threw, or delete manifest.deployments.<env> and
\* writeJson
DestroySettles ==
    /\ served["destroy"].pc = "awaitDestroy"
    /\ \/ /\ served' = [served EXCEPT !["destroy"].pc = "failed"]
          /\ UNCHANGED manifest
       \/ /\ served' = [served EXCEPT !["destroy"].pc = "done"]
          /\ manifest' =
               WriteManifest("destroy", served["destroy"].manifest,
                             [served["destroy"].manifest.deployments
                                EXCEPT ![served["destroy"].env] = NoResult])
    /\ UNCHANGED <<req, response, runs, deployVars, trackerVars, tenant, callers,
                   connection, sts, ui>>

\* the operator edits the package.json of a sub-project between two invocations
EditPackageJson ==
    /\ req.kind = "none"
    /\ dpc = "idle"
    /\ gen.pc = "none"
    /\ \E appId \in AppIds, sub \in SubProjects, content \in 1..MaxContent :
         /\ fsx[appId][sub].packageJson \notin {0, content}
         /\ fsx' = [fsx EXCEPT ![appId][sub].packageJson = content]
    /\ UNCHANGED <<dpc, dargs, procs, ext, needs, stageLog, result, fsAtCheck, prevRun,
                   emitted, gen, apiVars, trackerVars, tenantVars, sts>>

----------------------------------------------------------------------------
(* Specifications *)

InitApi ==
    /\ req = NoReq
    /\ response = NoResponse
    /\ manifest = [appId \in AppIds |-> NoManifest]
    /\ runs = 0

InitInvocation ==
    /\ dpc = "idle"
    /\ dargs = [appId |-> "", environment |-> "dev", onStatus |-> FALSE]
    /\ procs = [p \in ProcNames |-> NoProc]
    /\ ext = NoExt
    /\ needs = [sub \in SubProjects |-> FALSE]
    /\ stageLog = <<>>
    /\ result = NoResult
    /\ fsAtCheck = [sub \in SubProjects |-> NoProject]
    /\ prevRun = NoRun
    /\ emitted = <<>>
    /\ gen = NoGen

InitTenant ==
    /\ tenant = NoTenant
    /\ callers = [c \in Callers |-> NoCaller]
    /\ connection = NoConnection
    /\ sts = NoSts
    /\ served = [h \in Handlers |-> NoHandler]
    /\ ui = NoPage

Init ==
    /\ InitTracker
    /\ InitApi
    /\ InitInvocation
    /\ InitTenant
    /\ fsx = [appId \in AppIds |-> [sub \in SubProjects |-> NoProject]]

SubprocessClose == \E p \in ProcNames : ProcClose(p)
SubprocessTimeout == \E p \in ProcNames : ProcTimeout(p)

Next ==
    \/ PostGenerate
    \/ GenerateAssumeRole
    \/ GenerateAppSpec
    \/ RenderRepo
    \/ GenerateDeploy
    \/ GenerateAfterDeploy
    \/ PostPublish
    \/ PublishAfterDeploy
    \/ PostDestroy
    \/ DestroyAssumeRoleReturns
    \/ DestroyAfter
    \/ PostCheck
    \/ CheckAssumeRole
    \/ AssumeRoleReturns
    \/ CheckDependencies
    \/ SubprocessClose
    \/ SubprocessTimeout
    \/ ReadOutputsReturns
    \/ ConfigUploadReturns

Spec == Init /\ [][Next]_vars

\* generateAppSpec and deployCdkStack called with a status callback, in the
\* order of the handlers: the generation and the dev deployment of a generate
\* request, then the prod deployments of publish requests, over one repository
\* whose files are as renderRepo writes them
InitRendered ==
    /\ InitTracker
    /\ InitApi
    /\ InitInvocation
    /\ InitTenant
    /\ fsx = [appId \in AppIds |-> [sub \in SubProjects |-> RenderedProject]]

GenerateSpecCall ==
    /\ dpc = "idle"
    /\ runs = 0
    /\ gen.pc \in {"none", "specFailed", "componentsFailed"}
    /\ generateAppSpec(TRUE, <<>>)
    /\ UNCHANGED <<fsx, dpc, dargs, procs, ext, needs, stageLog, result, fsAtCheck,
                   prevRun, apiVars, trackerVars, tenantVars, sts>>

DeployCall ==
    /\ dpc = "idle"
    /\ runs < MaxRuns
    /\ gen.pc = IF runs = 0 THEN "done" ELSE "none"
    /\ runs' = runs + 1
    /\ \E appId \in AppIds :
         deployCdkStack(appId, IF runs = 0 THEN "dev" ELSE "prod", TRUE)
    /\ UNCHANGED <<req, response, manifest, trackerVars, tenantVars, sts>>

DeployReturn ==
    /\ dpc = "returned"
    /\ InvocationEnds
    /\ UNCHANGED <<apiVars, trackerVars, tenantVars>>

\* destroyCdkStack called for a stack of the repository
DestroyCall ==
    /\ dpc = "idle"
    /\ gen.pc = "none"
    /\ 0 < runs
    /\ runs < MaxRuns
    /\ runs' = runs + 1
    /\ \E appId \in AppIds, environment \in Environments :
         destroyCdkStack(appId, environment)
    /\ UNCHANGED <<req, response, manifest, trackerVars, tenantVars, sts>>

\* its caller has the outcome
DestroyReturn ==
    /\ dpc \in {"destroyed", "threw"}
    /\ DestroyEnds
    /\ UNCHANGED <<apiVars, trackerVars, tenantVars>>

NextDeploy ==
    \/ GenerateSpecCall
    \/ InvokeBedrockSpecReturns
    \/ GenerateComponentCodeReturns
    \/ DeployCall
    \/ DeployReturn
    \/ DestroyCall
    \/ DestroyAssumeRoleReturns
    \/ DestroyReturn
    \/ AssumeRoleReturns
    \/ CheckDependencies
    \/ SubprocessClose
    \/ SubprocessTimeout
    \/ ReadOutputsReturns
    \/ ConfigUploadReturns
    \/ EditPackageJson

SpecDeploy == InitRendered /\ [][NextDeploy]_vars

TrackerNext ==
    \/ CreateJobCall
    \/ AddUpdateCall
    \/ CompleteJobCall
    \/ FailJobCall
    \/ Tick

SpecTracker == Init /\ [][TrackerNext]_vars

\* the tracker with polling and reclaiming, all updates written at one time
RetentionNext ==
    \/ CreateJobCall
    \/ AddUpdateCall
    \/ CompleteJobCall
    \/ FailJobCall
    \/ GetStatusCall
    \/ CleanupCall
    \/ CleanupTimer

SpecRetention == Init /\ [][RetentionNext]_vars

\* getTenantConfig called by requests that are served at the same time
TenantCall ==
    /\ \E c \in Callers : getTenantConfig(c)
    /\ UNCHANGED <<connection, sts, served, ui, apiVars, deployVars, trackerVars>>

TenantExistsReturns ==
    /\ \E c \in Callers : TenantExists(c)
    /\ UNCHANGED <<connection, sts, served, ui, apiVars, deployVars, trackerVars>>

TenantReadReturns ==
    /\ \E c \in Callers : TenantRead(c)
    /\ UNCHANGED <<connection, sts, served, ui, apiVars, deployVars, trackerVars>>

TenantWriteReturns ==
    /\ \E c \in Callers : TenantWrite(c)
    /\ UNCHANGED <<connection, sts, served, ui, apiVars, deployVars, trackerVars>>

TenantNext ==
    \/ TenantCall
    \/ TenantExistsReturns
    \/ TenantReadReturns
    \/ TenantWriteReturns

SpecTenant == Init /\ [][TenantNext]_vars

\* the requests of the connection flow, served one at a time, beside
\* getTenantConfig calls of other requests
ConcurrentNext ==
    \/ ServeGenerate
    \/ GenerateSettles
    \/ ServePublish
    \/ PublishSettles
    \/ ServeDestroy
    \/ DestroySettles

SpecConcurrent == Init /\ [][ConcurrentNext]_vars

\* C33: when a publish to prod and a destroy of dev of the same application
\* have both succeeded, in whatever order their steps interleaved, the manifest
\* has the prod entry that the publish produced and no dev entry
C33_NoClobber ==
    ( /\ served["publish"].pc = "done"
      /\ served["destroy"].pc = "done"
      /\ served["destroy"].env = "dev"
      /\ served["publish"].appId = served["destroy"].appId )
        => /\ manifest[served["publish"].appId].deployments["prod"]
                = served["publish"].deployment
           /\ manifest[served["publish"].appId].deployments["dev"] = NoResult

\* the handler has called its pipeline function
PipelineCalled(h) == served[h].pc \in {"awaitDeploy", "awaitDestroy", "done"}

\* C34: the stack that publish and destroy work on has, before its Dev/Prod
\* suffix, the name of the stack that generate deployed for the application,
\* and a destroy of dev works on the stackName recorded in the dev entry of the
\* manifest it read
C34_StackNameConsistent ==
    /\ \A h \in {"publish", "destroy"} :
         (PipelineCalled(h) /\ served["generate"].appId = served[h].appId)
             => served[h].stackName[1] = served["generate"].stackName[1]
    /\ ( /\ PipelineCalled("destroy")
         /\ served["destroy"].env = "dev"
         /\ served["destroy"].manifest.deployments["dev"] # NoResult )
           => served["destroy"].stackName
                  = served["destroy"].manifest.deployments["dev"].stackName

UiNext ==
    \/ ClickGenerate
    \/ ApiGenerateSettles
    \/ IntervalFires
    \/ PollSettles
    \/ TimeoutFires

\* the browser runs a timer that is due and the continuation of a settled
\* promise; nothing makes the user click
UiFairness ==
    /\ WF_vars(ApiGenerateSettles)
    /\ WF_vars(IntervalFires)
    /\ WF_vars(PollSettles)
    /\ WF_vars(TimeoutFires)

SpecUi == Init /\ [][UiNext]_vars /\ UiFairness

Polling == \E g \in Generations : ui.generations[g].pc = "polling"

\* C38: a page that is generating reaches a state in which generating is false
\* and no interval polls: by a poll that saw completed or failed, and otherwise
\* by the 30-minute timer
C38_GenerationEnds == ui.generating ~> (~ui.generating /\ ~Polling)

ConnectNext ==
    \/ TenantCall
    \/ TenantExistsReturns
    \/ TenantReadReturns
    \/ TenantWriteReturns
    \/ GetInit
    \/ InitAssumeRole
    \/ GetConnectUrl
    \/ ConnectUrlReadFile
    \/ PostCheck
    \/ CheckAssumeRole

SpecConnect == Init /\ [][ConnectNext]_vars

----------------------------------------------------------------------------
(* Claims of the connection flow *)

\* every external id that an invocation of getTenantConfig can generate
ExternalIds == {NewConfig(c).externalId : c \in {0} \cup Callers}

\* C32: the external id leaves the process only as the ExternalId parameter
\* of the exchange: no field of an HTTP response body holds it, and no
\* persisted file other than the tenant record holds it.
C32_ExternalIdStaysInExchange ==
    /\ \A pair \in response.data : pair[2] \notin ExternalIds
    /\ connection.exists =>
           \A f \in {"tenantId", "externalId", "roleArn", "verifiedAt"} :
               connection[f] \notin ExternalIds

----------------------------------------------------------------------------
(* Claims of the tenant record *)

\* C28: the tenant identity is created once and is immutable: however the
\* getTenantConfig calls interleave, the tenant record is never overwritten
\* after its first write and every call that has returned has returned the
\* pair that the record holds.
C28_TenantCreatedOnce ==
    [][/\ tenant.exists => tenant' = tenant
       /\ \A c \in Callers :
              callers'[c].pc = "returned" => callers'[c].config = TenantData(tenant')]_vars

----------------------------------------------------------------------------
(* Claims about the job status tracker, checked under SpecTracker *)

\* C1: a job becomes terminal exactly once: once its status is completed or
\* failed, no later tracker call changes its status, its result or its error.
C1_TerminalExactlyOnce ==
    [][\A j \in JobIds :
          (Terminal(jobs[j]) /\ jobs'[j] # NoJob) =>
              /\ jobs'[j].status = jobs[j].status
              /\ jobs'[j].result = jobs[j].result
              /\ jobs'[j].error = jobs[j].error]_vars

\* C2: once a job is completed or failed, addUpdate leaves its update log as
\* it was.
C2_NoUpdateAfterTerminal ==
    [][\A j \in JobIds :
          (Terminal(jobs[j]) /\ jobs'[j] # NoJob) =>
              jobs'[j].updates = jobs[j].updates]_vars

IsPrefix(s, t) == Len(s) <= Len(t) /\ SubSeq(t, 1, Len(s)) = s

----------------------------------------------------------------------------
(* Claims about polling and reclaiming, checked under SpecRetention *)

\* C16: addUpdate, completeJob, failJob and getStatus for a job id the tracker
\* does not hold (never created, or reclaimed) leave the tracker as it is, and
\* getStatus returns undefined for every such id.
C16_UnknownJobNoOps ==
    [][/\ (call' # NoCall /\ timers' = timers) => jobs' = jobs
       /\ \A j \in JobIds : jobs'[j] = NoJob => getStatus(j)' = Undefined]_vars

\* failJob for an id the tracker does not hold, while another job is terminal
\* and waits for its removal
C16_Witness ==
    /\ call.op = "failJob"
    /\ jobs[call.jobId] = NoJob
    /\ getStatus(call.jobId) = Undefined
    /\ \E k \in JobIds \ {call.jobId} : Terminal(jobs[k]) /\ timers[k] > 0

\* C37: the fields of every job agree with its status: an in_progress job has
\* neither result nor error, a completed job has a result and no error, a
\* failed job has an error and no result
C37_FieldsAgreeWithStatus ==
    \A j \in JobIds :
        jobs[j] # NoJob =>
            /\ jobs[j].status = "in_progress"
                 => jobs[j].result = Undefined /\ jobs[j].error = Undefined
            /\ jobs[j].status = "completed"
                 => jobs[j].result # Undefined /\ jobs[j].error = Undefined
            /\ jobs[j].status = "failed"
                 => jobs[j].error # Undefined /\ jobs[j].result = Undefined

\* C36: no step of the tracker removes a job whose status is in_progress, so
\* getStatus of an unfinished job never answers undefined
C36_UnfinishedJobsStay ==
    [][\A j \in JobIds :
         (jobs[j] # NoJob /\ jobs[j].status = "in_progress") => jobs'[j] # NoJob]_vars

\* C17: every job that is completed or failed has a removal scheduled.
C17_TerminalJobsScheduled ==
    \A j \in JobIds : Terminal(jobs[j]) => timers[j] > 0

----------------------------------------------------------------------------
(* Claims about deployCdkStack, checked under SpecDeploy *)

ExitedWith(p, codes) == procs[p].promise = "resolved" /\ procs[p].code \in codes
NonZero == {1}
TimedOut(p) == procs[p].promise = "rejected"
Started(p) == procs[p].state # "none"

BootstrapPatternSeen ==
    \/ Includes(procs["bootstrap"].stdout, AlreadyBootstrapped)
    \/ Includes(procs["bootstrap"].stderr, AlreadyBootstrapped)

\* a stage has finished and has done what it is for
StageSucceeded(stage) ==
    CASE stage = "credentials" -> ext.credentials = "ok"
      [] stage = "dependencies" ->
           \A p \in {"installInfra", "installWeb"} : ~Started(p) \/ ExitedWith(p, {0})
      [] stage = "bootstrap" ->
           \/ ExitedWith("bootstrap", {0})
           \/ ExitedWith("bootstrap", NonZero) /\ BootstrapPatternSeen
      [] stage = "build" -> ExitedWith("build", {0}) /\ ExitedWith("synth", {0})
      [] stage = "deploy" -> ExitedWith("deploy", {0})
      [] stage = "outputs" -> ext.outputs = "ok"
      [] stage = "config" -> ext.config = "ok"

\* C3: the stages of an invocation start in the fixed order, none twice, and
\* none before the stage before it has finished successfully.
C3_StagesInOrder ==
    /\ IsPrefix(stageLog, Stages)
    /\ \A i \in 1..(Len(stageLog) - 1) : StageSucceeded(stageLog[i])

\* the failure of a stage, as the claim lists them
StageFailed(stage) ==
    CASE stage = "credentials" -> ext.credentials = "failed"
      [] stage = "install" ->
           \E p \in {"installInfra", "installWeb"} : ExitedWith(p, NonZero) \/ TimedOut(p)
      [] stage = "bootstrap" ->
           \/ ExitedWith("bootstrap", NonZero) /\ ~BootstrapPatternSeen
           \/ TimedOut("bootstrap")
      [] stage = "build" ->
           \E p \in {"build", "synth"} : ExitedWith(p, NonZero) \/ TimedOut(p)
      [] stage = "deploy" -> ExitedWith("deploy", NonZero) \/ TimedOut("deploy")
      [] stage = "outputs" -> ext.outputs = "failed"
      [] stage = "config" -> ext.config = "failed"

\* the subprocesses of the stages after a stage
LaterProcs(stage) ==
    CASE stage = "credentials" -> ProcNames
      [] stage = "install" -> {"bootstrap", "build", "synth", "deploy"}
      [] stage = "bootstrap" -> {"build", "synth", "deploy"}
      [] stage = "build" -> {"deploy"}
      [] stage \in {"deploy", "outputs", "config"} -> {}

\* the await of deployCdkStack during which the stage runs
AwaitOf(stage) ==
    CASE stage = "credentials" -> "assumeRole"
      [] stage = "outputs" -> "readOutputs"
      [] stage = "config" -> "uploadConfig"
      [] OTHER -> stage

FailableStages ==
    {"credentials", "install", "bootstrap", "build", "deploy", "outputs", "config"}

ReturnedFailed == dpc = "returned" /\ result.status = "failed"

\* C4: when a stage fails, no subprocess of a later stage is started and the
\* invocation returns a DeploymentResult with status failed, a non-empty error
\* and an empty output map; after a failed build or synth deploy never starts.
C4_FailureShortCircuits ==
    /\ \A stage \in FailableStages :
          (StageFailed(stage) /\ dpc # "idle") =>
              /\ \A p \in LaterProcs(stage) : ~Started(p)
              /\ dpc \in {AwaitOf(stage), "returned"}
              /\ dpc = "returned" => result.status = "failed"
    /\ StageFailed("deploy") => ext.outputs = "none"
    /\ StageFailed("outputs") => ext.config = "none"
    /\ ReturnedFailed => result.error # <<>> /\ result.outputs = {}

C4_Witness ==
    /\ ReturnedFailed
    /\ ExitedWith("build", NonZero)
    /\ ExitedWith("synth", {0})
    /\ ~Started("deploy")

\* C6: after an invocation whose installs succeeded, the next invocation over
\* the same repository with the same package.json contents starts no install.
C6_UnchangedManifestSkipsInstall ==
    (/\ prevRun.installed
     /\ dpc # "idle"
     /\ prevRun.appId = dargs.appId
     /\ \A sub \in SubProjects :
           fsx[dargs.appId][sub].packageJson = prevRun.packageJson[sub])
        => \A sub \in SubProjects : ~Started(InstallOf(sub))

\* C7: the .package-hash of a sub-project is created or changed only once an
\* install for that sub-project has exited with code 0.
C7_HashOnlyAfterInstall ==
    [][\A appId \in AppIds, sub \in SubProjects :
          fsx'[appId][sub].hashFile # fsx[appId][sub].hashFile =>
              /\ dargs.appId = appId
              /\ ExitedWith(InstallOf(sub), {0})]_vars

\* needsNpmInstall has run in this invocation
DependenciesChecked ==
    ext.credentials = "ok" /\ dpc \notin {"idle", "assumeRole", "needsNpmInstall"}

\* the package.json hash equals the stored hash and node_modules exists
Unchanged(proj) ==
    /\ proj.nodeModules
    /\ proj.hashFile.exists
    /\ proj.hashFile.content = Md5(proj.packageJson)

\* C8: for each sub-project on its own, the install is skipped when the hash
\* of package.json equals the stored hash and node_modules exists, and is run
\* in every other case.
C8_InstallIffChanged ==
    DependenciesChecked =>
        \A sub \in SubProjects :
            Started(InstallOf(sub)) <=> ~Unchanged(fsAtCheck[sub])

C8_Witness ==
    /\ DependenciesChecked
    /\ Started("installInfra")
    /\ fsAtCheck["infra"].hashFile.exists
    /\ ~Started("installWeb")

\* C9: the invocation neither goes on to the next stage nor returns while a
\* subprocess of the install pair or of the build + synth pair is running.
C9_PairAwaitedJointly ==
    \A p \in {"installInfra", "installWeb", "build", "synth"} :
        procs[p].state = "running" => dpc = StageOf(p)

\* C10: bootstrap succeeds on exit 0 and on a non-zero exit whose stdout or
\* stderr contains 'already bootstrapped'; any other non-zero exit and a
\* timeout end the run as failed with no build, synth or deploy started.
C10_BootstrapOutcome ==
    /\ (dpc # "idle" /\ StageSucceeded("bootstrap")) =>
           Started("build") /\ Started("synth")
    /\ (dpc # "idle" /\ StageFailed("bootstrap")) =>
           /\ \A p \in {"build", "synth", "deploy"} : ~Started(p)
           /\ ReturnedFailed

C10_Witness ==
    /\ ExitedWith("bootstrap", NonZero)
    /\ BootstrapPatternSeen
    /\ Started("build")
    /\ Started("synth")

\* C19: every subprocess of the deploy and destroy pipelines runs under a
\* timer; a subprocess whose timer fires before it has exited is killed, its
\* execCommand promise is rejected and the run fails (deployCdkStack returns
\* failed, destroyCdkStack throws); a settled promise never changes.
C19_SubprocessTimeouts ==
    [][/\ \A p \in ProcNames : procs'[p].state # "none" => TimeoutOf(p) > 0
       /\ \A p \in ProcNames :
             procs'[p].promise = "rejected" =>
                 /\ procs'[p].state \in {"killed", "closed"}
                 /\ dpc' # "idle" =>
                        \/ dpc' = "returned" /\ result'.status = "failed"
                        \/ dpc' = "threw"
       /\ \A p \in ProcNames :
             procs[p].promise \in {"resolved", "rejected"} =>
                 procs'[p].promise \in {procs[p].promise, "none"}]_vars

\* the destroy subprocess timed out, was killed and has closed since
C19_Witness ==
    /\ dpc = "threw"
    /\ procs["destroy"].promise = "rejected"
    /\ procs["destroy"].state = "closed"
    /\ result.error = <<"Command timed out after ${options.timeout}ms">>

\* the timeouts the specification gives, in milliseconds
SpecifiedTimeout(p) ==
    (CASE p \in {"installInfra", "installWeb", "bootstrap", "build", "synth"} -> 5
       [] p = "deploy" -> 15
       [] p = "destroy" -> 10) * 60 * 1000

\* C20: every subprocess runs under the timeout the specification gives for
\* its stage: 5 minutes for the installs, bootstrap, build and synth, 15
\* minutes for deploy, 10 minutes for destroy.
C20_TimeoutsAsSpecified ==
    \A p \in ProcNames : Started(p) => TimeoutOf(p) = SpecifiedTimeout(p)

\* the steps of the status updates, in the order of the stages
StatusSteps ==
    <<"bedrock-spec", "bedrock-components", "deploy-install", "deploy-bootstrap",
      "deploy-build", "deploy-cdk", "deploy-config">>

StepIndex(step) == CHOOSE i \in 1..Len(StatusSteps) : StatusSteps[i] = step

Emitted(step) == \E i \in 1..Len(emitted) : emitted[i].step = step

\* C14: the updates of one run are emitted in the order of the stages, and an
\* update of a stage is emitted only if every stage before it has succeeded.
C14_UpdatesInStageOrder ==
    /\ \A i, j \in 1..Len(emitted) :
          i < j => StepIndex(emitted[i].step) <= StepIndex(emitted[j].step)
    /\ Emitted("bedrock-components") =>
          gen.pc \in {"generateComponentCode", "done", "componentsFailed"}
    /\ Emitted("deploy-install") =>
          /\ dargs.environment = "dev" => gen.pc = "done"
          /\ StageSucceeded("credentials")
    /\ Emitted("deploy-bootstrap") => StageSucceeded("dependencies")
    /\ Emitted("deploy-build") => StageSucceeded("bootstrap")
    /\ Emitted("deploy-cdk") => StageSucceeded("build")
    /\ Emitted("deploy-config") => StageSucceeded("deploy") /\ StageSucceeded("outputs")

\* C15: every stage reports its start and its finish: the last update of a
\* stage, emitted before the first update of the next stage or before the run
\* returns, has the completed flag set.
C15_StartAndFinishReported ==
    /\ \A i \in 1..(Len(emitted) - 1) :
          emitted[i + 1].step # emitted[i].step => emitted[i].completed
    /\ (dpc = "returned" /\ emitted # <<>>) => emitted[Len(emitted)].completed

\* C27: an assumeRole call makes exactly one exchange; when the exchange is
\* rejected or returns no credentials the call throws an error whose message
\* names the role ARN and the upstream message, its caller gets no
\* credentials and fails with that error; when the exchange succeeds the
\* caller gets the credentials of that exchange.
C27_OneExchangeNoRetry ==
    sts # NoSts =>
        /\ sts.sends = 1
        /\ sts.ok =>
               /\ sts.credentials = <<"session", 1>>
               /\ sts.error = <<>>
               /\ dpc \notin {"returned", "threw"} \/ result.error # AssumeRoleError(RoleArn, "AccessDenied")
        /\ ~sts.ok =>
               /\ sts.credentials = NoCredentials
               /\ \E message \in {"AccessDenied", "No credentials returned from AssumeRole"} :
                      sts.error = AssumeRoleError(RoleArn, message)
               /\ dpc \in {"returned", "threw"}
               /\ result.error = sts.error
               /\ \A p \in ProcNames : ~Started(p)

\* the exchange of a deployCdkStack invocation was rejected
C27_Witness ==
    /\ dpc = "returned"
    /\ result.status = "failed"
    /\ sts.sends = 1
    /\ sts.credentials = NoCredentials
    /\ result.error = AssumeRoleError(RoleArn, "AccessDenied")

\* C29: once the deploy subprocess has been taken for successful and
\* outputs.json has been read, absent keys are no error: whichever keys, or the
\* whole entry of the stack, are missing, the invocation returns status
\* success unless the config upload itself failed, and the result fields of
\* the absent keys are empty.
C29_AbsentKeysDegrade ==
    (dpc = "returned" /\ ext.outputs = "ok" /\ ext.config # "failed") =>
        /\ result.status = "success"
        /\ result.error = <<>>
        /\ result.outputs = ext.data
        /\ ~ext.entry => result.outputs = {}
        /\ "PreviewUrl" \notin ext.data => result.previewUrl = Undefined
        /\ "ProdUrl" \notin ext.data => result.prodUrl = Undefined
        /\ "WebBucketName" \notin ext.data => ext.config = "none"
        /\ (ext.config = "ok" /\ ext.data \cap {"ApiUrl", ApiEndpoint} = {}) =>
               ext.body.apiUrl = Undefined

\* the stack's entry was missing from outputs.json and the invocation returned
\* success
C29_Witness ==
    /\ dpc = "returned"
    /\ ExitedWith("deploy", {0})
    /\ ext.outputs = "ok"
    /\ ~ext.entry
    /\ result.status = "success"
    /\ result.outputs = {}
    /\ result.previewUrl = Undefined

\* C30: the runtime configuration (API URL, environment name) is sent to the
\* web bucket if and only if the deploy stage succeeded and the outputs hold a
\* web bucket name; without a bucket name nothing is sent and the invocation
\* still returns status success.
C30_ConfigWrittenIffBucket ==
    /\ ext.config # "none" =>
           /\ StageSucceeded("deploy")
           /\ "WebBucketName" \in ext.data
           /\ ext.body = ConfigContent(ApiUrl(ext.data), dargs.environment)
    /\ (dpc = "returned" /\ StageSucceeded("deploy") /\ ext.outputs = "ok") =>
           IF "WebBucketName" \in ext.data
             THEN ext.config \in {"ok", "failed"}
             ELSE ext.config = "none" /\ ext.body = NoConfig /\ result.status = "success"

\* the dependency stage of the invocation found both sub-projects unchanged
\* and went on to bootstrap without an install
InstallSkipped ==
    /\ \E i \in 1..Len(stageLog) : stageLog[i] = "bootstrap"
    /\ \A sub \in SubProjects : ~needs[sub]
    /\ \A p \in {"installInfra", "installWeb"} : ~Started(p)

\* C31: whenever the dependency stage skips installation, the run has emitted
\* an update of the dependency stage that says so: one that is neither the
\* 'Checking dependencies' nor the 'Installing dependencies' update.
C31_SkipIsReported ==
    (dargs.onStatus /\ InstallSkipped) =>
        \E i \in 1..Len(emitted) :
            /\ emitted[i].step = "deploy-install"
            /\ emitted[i].message \notin {"Checking dependencies", "Installing dependencies"}

\* the external calls of deployCdkStack return, and every subprocess exits or
\* reaches its timeout
DeployFairness ==
    /\ WF_vars(AssumeRoleReturns)
    /\ WF_vars(CheckDependencies)
    /\ \A p \in ProcNames : WF_vars(ProcClose(p) \/ ProcTimeout(p))
    /\ WF_vars(ReadOutputsReturns)
    /\ WF_vars(ConfigUploadReturns)

SpecDeployLive == InitRendered /\ [][NextDeploy]_vars /\ DeployFairness

\* a deployCdkStack invocation has not returned yet
Deploying ==
    dpc \in {"assumeRole", "needsNpmInstall", "install", "bootstrap", "build", "deploy",
             "readOutputs", "uploadConfig"}

\* C39: every deployCdkStack invocation returns a DeploymentResult whose status
\* is success or failed, whatever the outcomes of its stages
C39_DeployTerminates ==
    Deploying ~> (dpc = "returned" /\ result.status \in {"success", "failed"})

\* a subprocess ran into its timeout, and the invocation has returned
C39_Witness ==
    /\ dpc = "returned"
    /\ result.status = "failed"
    /\ \E p \in ProcNames : procs[p].promise = "rejected"

\* C35: a subprocess whose close event execCommand has answered with exitCode 0
\* exited with code 0, so a run that ends in success has no subprocess that
\* ended otherwise
C35_ExitZeroOnlyForCodeZero ==
    \A p \in ProcNames :
        (procs[p].state = "closed" /\ procs[p].promise = "resolved"
           /\ procs[p].exitCode = 0)
            => procs[p].code = 0

\* a destroyCdkStack invocation is in progress or has just settled
Destroying == dpc \in {"destroyAssumeRole", "destroy", "destroyed", "threw"}

\* C21: destroyCdkStack makes one credential exchange and then starts the one
\* destroy subprocess and no other; when the exchange fails no subprocess is
\* started; a non-zero exit of the destroy subprocess makes the call throw.
C21_DestroyIsReduced ==
    Destroying =>
        /\ \A p \in ProcNames \ {"destroy"} : ~Started(p)
        /\ stageLog = <<>>
        /\ sts.sends = IF dpc = "destroyAssumeRole" THEN 0 ELSE 1
        /\ Started("destroy") <=> sts.ok
        /\ ExitedWith("destroy", NonZero) =>
               dpc = "threw" /\ result.error[1] = "CDK destroy failed: "

C21_Witness ==
    /\ dpc = "threw"
    /\ sts.sends = 1
    /\ ExitedWith("destroy", NonZero)
    /\ result.error = <<"CDK destroy failed: ", "ERR!">>

----------------------------------------------------------------------------
(* Claims about the handlers, checked under Spec *)

\* C5: a generate or publish request whose pipeline run ends failed leaves the
\* manifest as it was when the run started.
C5_FailedRunKeepsManifest ==
    [][(/\ req.kind \in {"generate", "publish"}
        /\ dpc # "idle"
        /\ ~(dpc = "returned" /\ result.status = "success")) =>
          manifest' = manifest]_vars

C5_Witness ==
    /\ ReturnedFailed
    /\ req.kind = "publish"
    /\ manifest[req.appId].deployments.dev.status = "success"

\* the handler of a generate or publish request takes the DeploymentResult of
\* its pipeline run and ends the request
RunEnds == dpc = "returned" /\ dpc' = "idle" /\ req.kind \in {"generate", "publish"}

\* no step of a generate or publish request other than the end of a run
\* changes the deployment entries of a manifest
EntriesKeptBetweenRuns ==
    (req.kind \in {"none", "generate", "publish"} /\ ~RunEnds) =>
        \A a \in AppIds :
            manifest[a].exists => manifest'[a].deployments = manifest[a].deployments

DestroyWithoutEntry ==
    /\ req.kind = "destroy"
    /\ req.manifest.deployments[req.body.env.value[1]].status = "none"

\* the messages of the requests that validateRequest turns down
ValidationMessages ==
    UNION {{Validated[kind][body].error : body \in Bodies[kind]} :
              kind \in {"publish", "destroy"}}

\* the step leaves the credentials, the subprocesses, the pipeline, the
\* repositories, the manifests and the tenant record as they were
NothingHappened ==
    /\ sts' = NoSts
    /\ UNCHANGED <<procs, dpc, fsx, manifest, tenant>>

\* C40: a publish or destroy request goes beyond its manifest check only for
\* an application that has a manifest; while no application has one, every
\* such request is answered with an error, 'App not found' when the request is
\* valid; and the step that answers 'App not found' makes no credential
\* exchange, starts no subprocess and creates no manifest
C40_AppNotFoundFirst ==
    [][(PostPublish \/ PostDestroy) =>
         /\ req'.kind # "none" => manifest[req'.appId].exists
         /\ (\A appId \in AppIds : ~manifest[appId].exists) =>
               /\ response'.status = 500
               /\ response'.message \in {<<"App not found">>} \cup ValidationMessages
               /\ NothingHappened
         /\ response'.message = <<"App not found">> => NothingHappened]_vars

\* a request has just been answered with 'App not found'
C40_Witness ==
    /\ req.kind = "none"
    /\ response.status = 500
    /\ response.message = <<"App not found">>
    /\ \E appId \in AppIds : ~manifest[appId].exists

\* C22: a destroy request for an environment of an existing application that
\* has no deployment entry makes no credential exchange and starts no
\* subprocess, and it ends as failed with the manifest left as it was.
C22_DestroyWithoutEntryFailsCleanly ==
    [][/\ DestroyWithoutEntry' => sts'.sends = 0 /\ ~Started("destroy")'
       /\ (DestroyWithoutEntry /\ req'.kind = "none") =>
              /\ response'.status = 500
              /\ manifest' = manifest]_vars

\* the handler of a destroy request has the outcome of destroyCdkStack and
\* ends the request
DestroyRequestEnds == req.kind = "destroy" /\ req.pc = "awaitDestroy" /\ req'.kind = "none"

\* C23: after a destroy of environment E whose teardown exited with code 0 the
\* manifest has no entry for E, the entry of the other environment is as it
\* was, and the manifest still exists and is listed; after any other destroy
\* the manifest is as it was.
C23_DestroyRemovesOneEntry ==
    [][DestroyRequestEnds =>
          LET a == req.appId
              e == dargs.environment
          IN IF ExitedWith("destroy", {0})
               THEN /\ manifest'[a].exists
                    /\ manifest'[a].deployments[e] = NoResult
                    /\ \A o \in Environments \ {e} :
                           manifest'[a].deployments[o] = manifest[a].deployments[o]
                    /\ \E item \in listApps' : item.appId = a
               ELSE manifest' = manifest]_vars

\* C24: when the credential exchange of a generate request fails, the request
\* ends with the message of the credential error and nothing else happens:
\* generateAppSpec is not reached, no repository and no manifest is written
\* and no subprocess is started.
C24_CredentialFailureEndsGenerate ==
    [][(req.kind = "generate" /\ req.pc = "assumeRole" /\ sts' # sts /\ ~sts'.ok) =>
          /\ req'.kind = "none"
          /\ response' = [status |-> 500, message |-> sts'.error, url |-> "", data |-> {}]
          /\ response'.message[1] = "Failed to assume role "
          /\ ~manifest'[req.appId].exists
          /\ \A sub \in SubProjects : fsx'[req.appId][sub] = NoProject
          /\ UNCHANGED <<manifest, fsx, procs, dpc, gen>>]_vars

\* a generate request has ended at its credential exchange, which returned no
\* credentials
C24_Witness ==
    /\ req.kind = "none"
    /\ response.status = 500
    /\ sts.sends = 1
    /\ response.message = AssumeRoleError(RoleArn, "No credentials returned from AssumeRole")
    /\ \A a \in AppIds : ~manifest[a].exists
    /\ tenant.exists

\* every stage of the run has succeeded; the runtime configuration stage has
\* nothing to do when the outputs name no web bucket
AllStagesSucceeded ==
    /\ \A stage \in {"credentials", "dependencies", "bootstrap", "build", "deploy", "outputs"} :
           StageSucceeded(stage)
    /\ ext.config = IF "WebBucketName" \in ext.data THEN "ok" ELSE "none"

\* the handler of a generate request takes the DeploymentResult of its run
GenerateRunEnds == RunEnds /\ req.kind = "generate"

\* C25 as stated: when every stage of a generate run has succeeded, the
\* request is answered with success and a non-empty preview URL, and the dev
\* entry of the manifest is the DeploymentResult of the run, with status
\* success.
C25_SuccessHasPreviewUrl ==
    [][(GenerateRunEnds /\ AllStagesSucceeded) =>
          /\ response'.status = 200
          /\ response'.url # ""
          /\ result.status = "success"
          /\ manifest'[req.appId].deployments.dev = result]_vars

\* C25 amended: the preview URL of the response is the PreviewUrl output of
\* the run: non-empty when the outputs of the stack hold that key, the empty
\* string when they do not.
C25_SuccessHasPreviewUrlOfOutputs ==
    [][(GenerateRunEnds /\ AllStagesSucceeded) =>
          /\ response'.status = 200
          /\ response'.url = IF "PreviewUrl" \in ext.data THEN "preview-url" ELSE ""
          /\ result.status = "success"
          /\ result.outputs = ext.data
          /\ manifest'[req.appId].deployments.dev = result]_vars

\* a generate request answered with a preview URL, its run recorded as the dev
\* entry
C25_Witness ==
    /\ req.kind = "none"
    /\ response.status = 200
    /\ response.url = "preview-url"
    /\ \E a \in AppIds :
          /\ manifest[a].exists
          /\ manifest[a].deployments.dev.status = "success"
          /\ manifest[a].deployments.dev.previewUrl = "preview-url"
          /\ manifest[a].deployments.prod = NoResult

\* a key of the body does not match the schema of the request
Malformed(kind, body) ==
    \E i \in 1..Len(SchemaKeys(kind)) :
        ~KeySchema(kind, SchemaKeys(kind)[i], body[SchemaKeys(kind)[i]])

ValidationFailure(resp) ==
    resp.status \in {400, 500} /\ resp.message # <<>> /\ resp.message[1] = "Validation failed: "

\* C26: a malformed check, generate, publish or destroy request is never
\* served: it is answered with the validation error in the step that receives
\* it, and that step makes no credential exchange, calls no generation, starts
\* no subprocess and writes no file; every exchange is made for a request
\* whose body is well-formed.
C26_MalformedRejectedFirst ==
    [][/\ req'.kind # "none" => ~Malformed(req'.kind, req'.body)
       /\ (sts' # sts /\ sts'.sends > 0) => req.kind # "none"
       /\ (response' # response /\ ValidationFailure(response')) =>
              /\ req.kind = "none"
              /\ req' = NoReq
              /\ sts'.sends = 0
              /\ UNCHANGED <<manifest, fsx, procs, dpc, gen, tenant, connection>>]_vars

\* the first request of an installation is a destroy request without
\* confirm: true
C26_Witness ==
    /\ runs = 1
    /\ req.kind = "none"
    /\ response = [status |-> 500, message |-> <<"Validation failed: ", "confirm">>,
                   url |-> "", data |-> {}]
    /\ ~tenant.exists
    /\ sts = NoSts

\* C12: a valid generate request is accepted as a job: while its generation
\* and deploy pipeline is still running, the tracker holds a job for it and
\* the response carrying the job id has been sent.
C12_GenerateAcceptedAsJob ==
    req.kind = "generate" =>
        /\ \E j \in JobIds : jobs[j] # NoJob
        /\ response.status = 200

====
